---- MODULE Spec2Model ----
(***************************************************************************)
(* The apEx project unpacker (scripts/unpack_apx.py): decode the children  *)
(* of the container root into typed entities, build the identity -> name   *)
(* maps, export the entities to an output tree.                            *)
(*                                                                         *)
(* A Python str is a sequence of characters; a character is a one-letter   *)
(* string, or a "U+xxxx" token for a code point outside ASCII.  Python's   *)
(* None is the value None below, which no str equals.  An Optional[Spline] *)
(* or Optional[float] is a sequence of at most one value, empty for None.  *)
(***************************************************************************)
EXTENDS Integers, Sequences, FiniteSets, TLC

None == <<"None">>

Truthy(s) == s # None /\ s # <<>>

Range(s) == {s[i] : i \in DOMAIN s}

UpperCase ==
  <<"A","B","C","D","E","F","G","H","I","J","K","L","M",
    "N","O","P","Q","R","S","T","U","V","W","X","Y","Z">>

LowerCase ==
  <<"a","b","c","d","e","f","g","h","i","j","k","l","m",
    "n","o","p","q","r","s","t","u","v","w","x","y","z">>

Digits == <<"0","1","2","3","4","5","6","7","8","9">>

\* U+0130 is LATIN CAPITAL LETTER I WITH DOT ABOVE (a letter, so \w);
\* U+0307 is COMBINING DOT ABOVE (a mark, neither \w nor \s).
IsWord(c) == c \in Range(UpperCase) \cup Range(LowerCase) \cup Range(Digits) \cup {"_", "U+0130"}

IsSpace(c) == c \in {" ", "\t", "\n", "\r"}

\* str.lower() of one character: U+0130 lowers to the two characters i, U+0307
lower_char(c) ==
  IF c = "U+0130" THEN <<"i", "U+0307">>
  ELSE IF c \in Range(UpperCase)
       THEN <<LowerCase[CHOOSE i \in DOMAIN UpperCase : UpperCase[i] = c]>>
       ELSE <<c>>

RECURSIVE lower(_)
lower(s) == IF s = <<>> THEN <<>> ELSE lower_char(Head(s)) \o lower(Tail(s))

RECURSIVE lstrip(_)
lstrip(s) == IF s # <<>> /\ IsSpace(Head(s)) THEN lstrip(Tail(s)) ELSE s

RECURSIVE rstrip(_)
rstrip(s) ==
  IF s # <<>> /\ IsSpace(s[Len(s)]) THEN rstrip(SubSeq(s, 1, Len(s) - 1)) ELSE s

strip(s) == rstrip(lstrip(s))

\* first index j >= k with s[j] = "]", or 0
NextClose(s, k) ==
  IF \E j \in k..Len(s) : s[j] = "]"
  THEN CHOOSE j \in k..Len(s) : s[j] = "]" /\ \A h \in k..(j - 1) : s[h] # "]"
  ELSE 0

\* re.sub(r'\[([^\]]+)\]', r'\1', s), scanning from index i
RECURSIVE sub_brackets(_, _)
sub_brackets(s, i) ==
  IF i > Len(s) THEN <<>>
  ELSE IF s[i] = "[" /\ NextClose(s, i + 1) >= i + 2
       THEN SubSeq(s, i + 1, NextClose(s, i + 1) - 1)
              \o sub_brackets(s, NextClose(s, i + 1) + 1)
       ELSE <<s[i]>> \o sub_brackets(s, i + 1)

\* re.sub(r'[^\w\s-]', '', s)
sub_nonword(s) == SelectSeq(s, LAMBDA c : IsWord(c) \/ IsSpace(c) \/ c = "-")

\* re.sub(r'\s+', '-', s), scanning from index i
RECURSIVE sub_spaces(_, _)
sub_spaces(s, i) ==
  IF i > Len(s) THEN <<>>
  ELSE IF IsSpace(s[i])
       THEN (IF i > 1 /\ IsSpace(s[i - 1]) THEN <<>> ELSE <<"-">>) \o sub_spaces(s, i + 1)
       ELSE <<s[i]>> \o sub_spaces(s, i + 1)

Unnamed == <<"u","n","n","a","m","e","d">>

sanitize_filename(name) ==
  LET n1 == sub_brackets(name, 1)
      n2 == sub_nonword(n1)
      n3 == sub_spaces(strip(n2), 1)
      n4 == lower(n3)
  IN  IF n4 = <<>> THEN Unnamed ELSE n4

\* html.unescape for the entities &lt &gt &amp (the trailing ; is optional
\* for these three), scanning from index i
Entity(s, i, name) ==
  /\ i + Len(name) <= Len(s)
  /\ s[i] = "&"
  /\ SubSeq(s, i + 1, i + Len(name)) = name

EntityEnd(s, i, name) ==
  IF i + Len(name) + 1 <= Len(s) /\ s[i + Len(name) + 1] = ";"
  THEN i + Len(name) + 2 ELSE i + Len(name) + 1

RECURSIVE unescape(_, _)
unescape(s, i) ==
  IF i > Len(s) THEN <<>>
  ELSE IF Entity(s, i, <<"l","t">>) THEN <<"<">> \o unescape(s, EntityEnd(s, i, <<"l","t">>))
  ELSE IF Entity(s, i, <<"g","t">>) THEN <<">">> \o unescape(s, EntityEnd(s, i, <<"g","t">>))
  ELSE IF Entity(s, i, <<"a","m","p">>) THEN <<"&">> \o unescape(s, EntityEnd(s, i, <<"a","m","p">>))
  ELSE <<s[i]>> \o unescape(s, i + 1)

\* .replace('\r\n', '\n').replace('\r', '\n'), scanning from index i
RECURSIVE newlines(_, _)
newlines(s, i) ==
  IF i > Len(s) THEN <<>>
  ELSE IF s[i] = "\r"
       THEN <<"\n">> \o newlines(s, IF i < Len(s) /\ s[i + 1] = "\n" THEN i + 2 ELSE i + 1)
       ELSE <<s[i]>> \o newlines(s, i + 1)

decode_shader_code(code) == newlines(unescape(code, 1), 1)

(***************************************************************************)
(* int(str): surrounding whitespace, an optional sign, decimal digits with *)
(* single underscores between them.  Anything else raises ValueError.      *)
(***************************************************************************)
Unsigned(s) ==
  LET t == strip(s) IN IF t # <<>> /\ t[1] \in {"+", "-"} THEN Tail(t) ELSE t

IntOk(s) ==
  LET u == Unsigned(s)
  IN  /\ u # <<>>
      /\ \A i \in DOMAIN u : u[i] \in Range(Digits) \cup {"_"}
      /\ u[1] # "_" /\ u[Len(u)] # "_"
      /\ \A i \in 1..(Len(u) - 1) : ~(u[i] = "_" /\ u[i + 1] = "_")

DigitVal(c) == (CHOOSE i \in DOMAIN Digits : Digits[i] = c) - 1

RECURSIVE Magnitude(_)
Magnitude(u) ==
  IF u = <<>> THEN 0
  ELSE IF u[Len(u)] = "_" THEN Magnitude(SubSeq(u, 1, Len(u) - 1))
  ELSE 10 * Magnitude(SubSeq(u, 1, Len(u) - 1)) + DigitVal(u[Len(u)])

int(s) ==
  LET t == strip(s)
  IN  IF t[1] = "-" THEN 0 - Magnitude(Unsigned(s)) ELSE Magnitude(Unsigned(s))

(***************************************************************************)
(* xml.etree.ElementTree elements: a tag, a text (None or a non-empty      *)
(* str), attributes as a sequence of <<key, value>> pairs, children.       *)
(***************************************************************************)
E(tag, text, attrib, children) ==
  [tag |-> tag, text |-> text, attrib |-> attrib, children |-> children]

findall(elem, tag) == SelectSeq(elem.children, LAMBDA c : c.tag = tag)

has(elem, tag) == findall(elem, tag) # <<>>

find(elem, tag) == Head(findall(elem, tag))

findtext(elem, tag, default) ==
  IF ~has(elem, tag) THEN default
  ELSE IF find(elem, tag).text = None THEN <<>> ELSE find(elem, tag).text

get(elem, key, default) ==
  IF \E i \in DOMAIN elem.attrib : elem.attrib[i][1] = key
  THEN elem.attrib[CHOOSE i \in DOMAIN elem.attrib :
                     /\ elem.attrib[i][1] = key
                     /\ \A h \in 1..(i - 1) : elem.attrib[h][1] # key][2]
  ELSE default

Zero == <<"0">>

One == <<"1">>

\* Python's  x or d
Or(x, d) == IF Truthy(x) THEN x ELSE d

Map(f(_), s) == IF s = <<>> THEN <<>> ELSE [i \in 1..Len(s) |-> f(s[i])]

AnyOf(p(_), s) == \E i \in DOMAIN s : p(s[i])

\* a dict[int, int]: a function on the keys inserted so far
EmptyDict == <<>>

DictPut(d, k, v) == [x \in (DOMAIN d) \cup {k} |-> IF x = k THEN v ELSE d[x]]

\* float(str), for the integer literals
FloatOk(s) == IntOk(s)

float(s) == int(s)

(***************************************************************************)
(* Parsing functions.  raises_f(elem) tells whether f(elem) raises         *)
(* ValueError; f(elem) is the value returned when it does not.             *)
(***************************************************************************)
SplineInts ==
  <<"interpolation", "loop", "waveform", "multiplicativewaveform",
    "wfamplitude", "wffrequency", "wfrandseed">>

BadText(e) == ~IntOk(Or(e.text, Zero))

raises_key(key_elem) ==
  \/ ~IntOk(findtext(key_elem, "time", Zero))
  \/ AnyOf(BadText, findall(key_elem, "value"))
  \/ AnyOf(BadText, findall(key_elem, "controlpos"))
  \/ AnyOf(BadText, findall(key_elem, "controlvalue"))

raises_spline(elem) ==
  \/ \E i \in DOMAIN SplineInts : ~IntOk(findtext(elem, SplineInts[i], Zero))
  \/ AnyOf(BadText, findall(elem, "value"))
  \/ AnyOf(raises_key, findall(elem, "key"))

TextInt(e) == int(Or(e.text, Zero))

parse_key(key_elem) ==
  [time           |-> int(findtext(key_elem, "time", Zero)),
   values         |-> Map(TextInt, findall(key_elem, "value")),
   control_pos    |-> Map(TextInt, findall(key_elem, "controlpos")),
   control_values |-> Map(TextInt, findall(key_elem, "controlvalue"))]

\* the value elements of iter('value'): those of the keys among them
RECURSIVE iter_values(_)
iter_values(children) ==
  IF children = <<>> THEN <<>>
  ELSE (IF Head(children).tag = "value" THEN <<Head(children)>>
        ELSE findall(Head(children), "value")) \o iter_values(Tail(children))

\* the static values read from every value element under the spline
parse_spline_iter(elem) ==
  [interpolation           |-> int(findtext(elem, "interpolation", Zero)),
   loop                    |-> int(findtext(elem, "loop", Zero)),
   waveform                |-> int(findtext(elem, "waveform", Zero)),
   multiplicative_waveform |-> int(findtext(elem, "multiplicativewaveform", Zero)),
   wf_amplitude            |-> int(findtext(elem, "wfamplitude", Zero)),
   wf_frequency            |-> int(findtext(elem, "wffrequency", Zero)),
   wf_randseed             |-> int(findtext(elem, "wfrandseed", Zero)),
   values                  |-> Map(TextInt, iter_values(elem.children)),
   keys                    |-> Map(parse_key, findall(elem, "key"))]

parse_spline(elem) ==
  [interpolation           |-> int(findtext(elem, "interpolation", Zero)),
   loop                    |-> int(findtext(elem, "loop", Zero)),
   waveform                |-> int(findtext(elem, "waveform", Zero)),
   multiplicative_waveform |-> int(findtext(elem, "multiplicativewaveform", Zero)),
   wf_amplitude            |-> int(findtext(elem, "wfamplitude", Zero)),
   wf_frequency            |-> int(findtext(elem, "wffrequency", Zero)),
   wf_randseed             |-> int(findtext(elem, "wfrandseed", Zero)),
   values                  |-> Map(TextInt, findall(elem, "value")),
   keys                    |-> Map(parse_key, findall(elem, "key"))]

raises_parameter(elem) ==
  \/ ~IntOk(findtext(elem, "Scope", Zero))
  \/ ~IntOk(findtext(elem, "Type", Zero))

parse_parameter(elem) ==
  [guid          |-> findtext(elem, "GUID", <<>>),
   name          |-> findtext(elem, "Name", <<>>),
   scope         |-> int(findtext(elem, "Scope", Zero)),
   param_type    |-> int(findtext(elem, "Type", Zero)),
   default_value |-> findtext(elem, "DefaultValue", None),
   value         |-> findtext(elem, "Value", None),
   texture_guid  |-> findtext(elem, "TextureGUID", None)]

\* code_elem is not None and code_elem.text, then decoded; else ''
code_of(elem) ==
  IF has(elem, "Code") /\ Truthy(find(elem, "Code").text)
  THEN decode_shader_code(find(elem, "Code").text)
  ELSE <<>>

\* any([guid, name]) in the place of all([guid, name])
texgen_shape_any(elem) ==
  \/ Truthy(findtext(elem, "GUID", None))
  \/ Truthy(findtext(elem, "Name", None))

\* parse_texture_generator returns None unless all([guid, name])
texgen_shape(elem) ==
  /\ Truthy(findtext(elem, "GUID", None))
  /\ Truthy(findtext(elem, "Name", None))

raises_texture_generator(elem) ==
  texgen_shape(elem) /\ AnyOf(raises_parameter, findall(elem, "Parameter"))

parse_texture_generator(elem) ==
  [guid       |-> findtext(elem, "GUID", None),
   name       |-> findtext(elem, "Name", None),
   code       |-> code_of(elem),
   parameters |-> Map(parse_parameter, findall(elem, "Parameter"))]

UnnamedPass == <<"U","n","n","a","m","e","d"," ","P","a","s","s">>

raises_pass(pass_elem) == AnyOf(raises_parameter, findall(pass_elem, "Parameter"))

parse_pass(pass_elem) ==
  [name       |-> findtext(pass_elem, "Name", UnnamedPass),
   code       |-> code_of(pass_elem),
   minifiable |-> findtext(pass_elem, "Minifiable", One) = One,
   parameters |-> Map(parse_parameter, findall(pass_elem, "Parameter"))]

raises_render_technique(elem) ==
  \/ ~IntOk(findtext(elem, "Type", Zero))
  \/ AnyOf(raises_pass, findall(elem, "Pass"))

parse_render_technique(elem) ==
  [guid           |-> findtext(elem, "GUID", <<>>),
   name           |-> findtext(elem, "Name", <<>>),
   technique_type |-> int(findtext(elem, "Type", Zero)),
   target_layer   |-> findtext(elem, "TargetLayer", None),
   passes         |-> Map(parse_pass, findall(elem, "Pass"))]

OperatorInts == <<"x1", "y1", "x2", "y2", "Resolution", "Seed">>

\* the Parameter children that set an entry of op.parameters
SetsParameter(param) == get(param, "ID", None) # None /\ Truthy(param.text)

BadOperatorParameter(param) ==
  SetsParameter(param) /\ (~IntOk(get(param, "ID", None)) \/ ~IntOk(param.text))

raises_texture_operator(elem) ==
  \/ \E i \in DOMAIN OperatorInts : ~IntOk(findtext(elem, OperatorInts[i], Zero))
  \/ AnyOf(BadOperatorParameter, findall(elem, "Parameter"))

RECURSIVE operator_parameters(_)
operator_parameters(params) ==
  IF params = <<>> THEN EmptyDict
  ELSE LET rest == operator_parameters(SubSeq(params, 1, Len(params) - 1))
           param == params[Len(params)]
       IN  IF SetsParameter(param)
           THEN DictPut(rest, int(get(param, "ID", None)), int(param.text))
           ELSE rest

parse_texture_operator(elem) ==
  [guid        |-> findtext(elem, "GUID", <<>>),
   x1          |-> int(findtext(elem, "x1", Zero)),
   y1          |-> int(findtext(elem, "y1", Zero)),
   x2          |-> int(findtext(elem, "x2", Zero)),
   y2          |-> int(findtext(elem, "y2", Zero)),
   filter_guid |-> findtext(elem, "Filter", <<>>),
   resolution  |-> int(findtext(elem, "Resolution", Zero)),
   seed        |-> int(findtext(elem, "Seed", Zero)),
   parameters  |-> operator_parameters(findall(elem, "Parameter"))]

Eight == <<"8">>

raises_texture_page(elem) ==
  \/ ~IntOk(findtext(elem, "xres", Eight))
  \/ ~IntOk(findtext(elem, "yres", Eight))
  \/ AnyOf(raises_texture_operator, findall(elem, "Operator"))

\* the resolution of a page without xres / yres taken as 0
parse_texture_page_zero(elem) ==
  [guid      |-> findtext(elem, "GUID", <<>>),
   name      |-> findtext(elem, "Name", <<>>),
   xres      |-> int(findtext(elem, "xres", Zero)),
   yres      |-> int(findtext(elem, "yres", Zero)),
   hdr       |-> findtext(elem, "hdr", Zero) = One,
   operators |-> Map(parse_texture_operator, findall(elem, "Operator"))]

parse_texture_page(elem) ==
  [guid      |-> findtext(elem, "GUID", <<>>),
   name      |-> findtext(elem, "Name", <<>>),
   xres      |-> int(findtext(elem, "xres", Eight)),
   yres      |-> int(findtext(elem, "yres", Eight)),
   hdr       |-> findtext(elem, "hdr", Zero) = One,
   operators |-> Map(parse_texture_operator, findall(elem, "Operator"))]

parse_material(elem) ==
  [guid           |-> findtext(elem, "GUID", <<>>),
   name           |-> findtext(elem, "Name", <<>>),
   technique_guid |-> findtext(elem, "Tech", <<>>)]

\* the transformation / parameter children that set an entry of the dict
SetsIndex(t) == get(t, "index", None) # None /\ get(t, "value", None) # None

BadIndex(t) ==
  SetsIndex(t) /\ (~IntOk(get(t, "index", None)) \/ ~IntOk(get(t, "value", None)))

RECURSIVE index_value_dict(_)
index_value_dict(elems) ==
  IF elems = <<>> THEN EmptyDict
  ELSE LET rest == index_value_dict(SubSeq(elems, 1, Len(elems) - 1))
           t == elems[Len(elems)]
       IN  IF SetsIndex(t)
           THEN DictPut(rest, int(get(t, "index", None)), int(get(t, "value", None)))
           ELSE rest

raises_mesh_filter(elem) ==
  \/ ~IntOk(get(elem, "Type", Zero))
  \/ AnyOf(BadIndex, findall(elem, "transformation"))
  \/ AnyOf(BadIndex, findall(elem, "parameter"))

parse_mesh_filter(elem) ==
  [filter_type     |-> int(get(elem, "Type", Zero)),
   name            |-> findtext(elem, "Name", <<>>),
   transformations |-> index_value_dict(findall(elem, "transformation")),
   parameters      |-> index_value_dict(findall(elem, "parameter")),
   enabled         |-> findtext(elem, "enabled", One) = One]

NoParent ==
  <<"N","O","N","E","N","O","N","E","N","O","N","E","N","O","N","E",
    "N","O","N","E","N","O","N","E","N","O","N","E","N","O","N","E">>

\* the sentinel kept like any other value
KeptParent_any(pg) == Truthy(get(pg, "value", None))

KeptParent(pg) == Truthy(get(pg, "value", None)) /\ get(pg, "value", None) # NoParent

ParentValue(pg) == get(pg, "value", None)

raises_model_object(elem) ==
  \/ ~IntOk(get(elem, "Type", Zero))
  \/ AnyOf(BadIndex, findall(elem, "transformation"))
  \/ AnyOf(BadIndex, findall(elem, "parameter"))
  \/ (Truthy(findtext(elem, "floatparameter", None))
        /\ ~FloatOk(findtext(elem, "floatparameter", None)))
  \/ AnyOf(raises_mesh_filter, findall(elem, "Filter"))

parse_model_object(elem) ==
  [guid            |-> findtext(elem, "GUID", <<>>),
   name            |-> findtext(elem, "Name", <<>>),
   object_type     |-> int(get(elem, "Type", Zero)),
   transformations |-> index_value_dict(findall(elem, "transformation")),
   parameters      |-> index_value_dict(findall(elem, "parameter")),
   float_parameter |-> IF Truthy(findtext(elem, "floatparameter", None))
                       THEN <<float(findtext(elem, "floatparameter", None))>>
                       ELSE <<>>,
   parent_guids    |-> Map(ParentValue, SelectSeq(findall(elem, "parentguid"), KeptParent)),
   cloned_object   |-> findtext(elem, "clonedobject", None),
   filters         |-> Map(parse_mesh_filter, findall(elem, "Filter"))]

raises_model(elem) == AnyOf(raises_model_object, findall(elem, "Object"))

parse_model(elem) ==
  [guid    |-> findtext(elem, "GUID", <<>>),
   name    |-> findtext(elem, "Name", <<>>),
   objects |-> Map(parse_model_object, findall(elem, "Object"))]

raises_clip_spline(cs_elem) ==
  \/ ~IntOk(get(cs_elem, "type", Zero))
  \/ (has(cs_elem, "spline") /\ raises_spline(find(cs_elem, "spline")))

parse_clip_spline(cs_elem) ==
  [spline_type |-> int(get(cs_elem, "type", Zero)),
   spline      |-> IF has(cs_elem, "spline")
                   THEN <<parse_spline(find(cs_elem, "spline"))>>
                   ELSE <<>>]

raises_clip_data(elem) ==
  \/ ~IntOk(findtext(elem, "randseed", Zero))
  \/ ~IntOk(findtext(elem, "turbulencefreq", Zero))
  \/ AnyOf(raises_clip_spline, findall(elem, "clipspline"))

parse_clip_data(elem) ==
  [target_clip     |-> get(elem, "targetclip", <<>>),
   randseed        |-> int(findtext(elem, "randseed", Zero)),
   turbulence_freq |-> int(findtext(elem, "turbulencefreq", Zero)),
   splines         |-> Map(parse_clip_spline, findall(elem, "clipspline"))]

raises_scene_object(elem) ==
  \/ ~IntOk(get(elem, "Type", Zero))
  \/ AnyOf(raises_clip_data, findall(elem, "clipdata"))

parse_scene_object(elem) ==
  [guid        |-> findtext(elem, "GUID", <<>>),
   name        |-> findtext(elem, "Name", <<>>),
   object_type |-> int(get(elem, "Type", Zero)),
   clip_data   |-> Map(parse_clip_data, findall(elem, "clipdata"))]

parse_clip(clip_elem) ==
  [guid |-> findtext(clip_elem, "GUID", <<>>),
   name |-> findtext(clip_elem, "Name", <<>>)]

raises_scene(elem) == AnyOf(raises_scene_object, findall(elem, "Object"))

parse_scene(elem) ==
  [guid    |-> findtext(elem, "GUID", <<>>),
   name    |-> findtext(elem, "Name", <<>>),
   clips   |-> Map(parse_clip, findall(elem, "Clip")),
   objects |-> Map(parse_scene_object, findall(elem, "Object"))]

EventInts == <<"Type", "Pass", "StartFrame", "EndFrame">>

raises_timeline_event(elem) ==
  \/ \E i \in DOMAIN EventInts : ~IntOk(findtext(elem, EventInts[i], Zero))
  \/ (has(elem, "TimeSpline") /\ raises_spline(find(elem, "TimeSpline")))

\* the references read with the default '' of the other text fields
parse_timeline_event_empty(elem) ==
  [guid            |-> findtext(elem, "GUID", <<>>),
   name            |-> findtext(elem, "Name", <<>>),
   event_type      |-> int(findtext(elem, "Type", Zero)),
   pass_index      |-> int(findtext(elem, "Pass", Zero)),
   start_frame     |-> int(findtext(elem, "StartFrame", Zero)),
   end_frame       |-> int(findtext(elem, "EndFrame", Zero)),
   target_rt       |-> findtext(elem, "TargetRT", <<>>),
   time_spline     |-> IF has(elem, "TimeSpline")
                       THEN <<parse_spline(find(elem, "TimeSpline"))>>
                       ELSE <<>>,
   scene_guid      |-> findtext(elem, "scene", <<>>),
   clip_guid       |-> findtext(elem, "clip", <<>>),
   camera_guid     |-> findtext(elem, "camera", <<>>),
   subscene_target |-> findtext(elem, "subscenetarget", <<>>)]

parse_timeline_event(elem) ==
  [guid            |-> findtext(elem, "GUID", <<>>),
   name            |-> findtext(elem, "Name", <<>>),
   event_type      |-> int(findtext(elem, "Type", Zero)),
   pass_index      |-> int(findtext(elem, "Pass", Zero)),
   start_frame     |-> int(findtext(elem, "StartFrame", Zero)),
   end_frame       |-> int(findtext(elem, "EndFrame", Zero)),
   target_rt       |-> findtext(elem, "TargetRT", <<>>),
   time_spline     |-> IF has(elem, "TimeSpline")
                       THEN <<parse_spline(find(elem, "TimeSpline"))>>
                       ELSE <<>>,
   scene_guid      |-> findtext(elem, "scene", None),
   clip_guid       |-> findtext(elem, "clip", None),
   camera_guid     |-> findtext(elem, "camera", None),
   subscene_target |-> findtext(elem, "subscenetarget", None)]

TargetInts == <<"ResolutionDescriptor", "PixelFormat", "ZResolution">>

raises_render_target(elem) ==
  \E i \in DOMAIN TargetInts : ~IntOk(findtext(elem, TargetInts[i], Zero))

parse_render_target(elem) ==
  [guid         |-> findtext(elem, "GUID", <<>>),
   name         |-> findtext(elem, "Name", <<>>),
   resolution   |-> int(findtext(elem, "ResolutionDescriptor", Zero)),
   pixel_format |-> int(findtext(elem, "PixelFormat", Zero)),
   is_cubemap   |-> findtext(elem, "CubeMap", Zero) = One,
   z_resolution |-> int(findtext(elem, "ZResolution", Zero)),
   hidden       |-> findtext(elem, "HiddenFromTimeline", Zero) = One]

HasText(e) == Truthy(e.text)

TextOf(e) == e.text

parse_render_layer(elem) ==
  [guid           |-> findtext(elem, "GUID", <<>>),
   name           |-> findtext(elem, "Name", <<>>),
   render_targets |-> Map(TextOf, SelectSeq(findall(elem, "RenderTarget"), HasText)),
   omit_depth     |-> findtext(elem, "OmitDepthBuffer", Zero) = One,
   clear_targets  |-> findtext(elem, "ClearRenderTargets", Zero) = One,
   is_voxelizer   |-> findtext(elem, "Voxelizer", Zero) = One,
   ignore_helpers |-> findtext(elem, "IgnoreHelperObjects", Zero) = One,
   pickable       |-> findtext(elem, "Pickable", Zero) = One]

(***************************************************************************)
(* Constants of the exporter.                                              *)
(***************************************************************************)
\* an enum label: a name of a table, or a prefix formatted with a number
Label(name) == [name |-> name, num |-> <<>>]

LabelN(prefix, n) == [name |-> prefix, num |-> <<n>>]

PARAM_TYPE_NAMES ==
  <<"Float", "Color", "ZMode", "ZFunction", "FillMode", "CullMode",
    "RenderPriority", "Texture0", "Texture1", "Texture2", "Texture3",
    "Texture4", "Texture5", "Texture6", "Texture7", "BlendMode0",
    "BlendMode1", "BlendMode2", "BlendMode3", "BlendMode4", "BlendMode5",
    "BlendMode6", "BlendMode7", "RenderTarget", "ParticleLifeFloat",
    "DepthTexture7", "3DTexture6", "MeshData0", "MeshData1", "MeshData2",
    "MeshData3", "MeshData4", "MeshData5", "MeshData6", "MeshData7",
    "ParticleLife", "LTC1", "LTC2">>

TECHNIQUE_TYPE_NAMES == <<"Material", "PostProcess", "ShaderToy", "Particle">>

EVENT_TYPE_NAMES ==
  <<"RenderScene", "CameraShake", "Particle", "CameraOverride",
    "SubScene", "RenderDemo", "RenderDemo", "EnvMapFlip">>

\* TABLE.get(n, default) for a table keyed 0 .. len-1
table_get(table, n, default) ==
  IF n + 1 \in DOMAIN table THEN Label(table[n + 1]) ELSE default

Unknown == <<"U","n","k","n","o","w","n">>

\* the length of the identity prefix used for a name that is not found
PrefixLen == 16

Prefix(s) == SubSeq(s, 1, IF Len(s) < PrefixLen THEN Len(s) ELSE PrefixLen)

SCOPE_NAMES == <<"Constant", "Variable", "Animated">>

\* ['Constant', 'Variable', 'Animated'][scope] if scope < 3 else f"Scope{scope}"
\* a negative index counts from the end of the list; below -3 is an IndexError
raises_scope(scope) == scope < 0 - 3

scope_label(scope) ==
  IF scope >= 3 THEN LabelN("Scope", scope)
  ELSE IF scope >= 0 THEN Label(SCOPE_NAMES[scope + 1])
  ELSE Label(SCOPE_NAMES[scope + 4])

HLSL == <<".","h","l","s","l">>

JSON == <<".","j","s","o","n">>

\* len(code.split('\n'))
RECURSIVE line_count(_)
line_count(code) ==
  IF code = <<>> THEN 1
  ELSE (IF Head(code) = "\n" THEN 1 ELSE 0) + line_count(Tail(code))

(***************************************************************************)
(* Identity -> name maps: a dict comprehension keeps, for a key met twice, *)
(* the value met last.                                                     *)
(***************************************************************************)
Last(s, p(_)) == s[CHOOSE i \in DOMAIN s : p(s[i]) /\ \A j \in (i + 1)..Len(s) : ~p(s[j])]

\* the value met first kept for a key met twice
name_map_first(entities) ==
  [g \in {entities[i].guid : i \in DOMAIN entities} |->
     entities[CHOOSE i \in DOMAIN entities :
                /\ entities[i].guid = g
                /\ \A j \in 1..(i - 1) : entities[j].guid # g].name]

name_map(entities) ==
  [g \in {entities[i].guid : i \in DOMAIN entities} |->
     Last(entities, LAMBDA e : e.guid = g).name]

dict_get(m, k, default) == IF k \in DOMAIN m THEN m[k] ELSE default

\* the clips of all scenes in iteration order, each with its display name
RECURSIVE scene_clips(_)
scene_clips(ss) ==
  IF ss = <<>> THEN <<>>
  ELSE LET scene == Head(ss)
           Named(clip) == [guid |-> clip.guid, name |-> scene.name \o <<"/">> \o clip.name]
       IN  Map(Named, scene.clips) \o scene_clips(Tail(ss))

(***************************************************************************)
(* sorted(entities, key=lambda x: x.name): a stable sort, str compared by  *)
(* code point.  CodeOrder lists the characters by ascending code point    *)
(* (ASCII without the backquote, then U+0130 and U+0307).                  *)
(***************************************************************************)
CodeOrder ==
  <<"\t", "\n", "\r", " ", "!", "\"", "#", "$", "%", "&", "'", "(",
    ")", "*", "+", ",", "-", ".", "/", "0", "1", "2", "3", "4",
    "5", "6", "7", "8", "9", ":", ";", "<", "=", ">", "?", "@",
    "A", "B", "C", "D", "E", "F", "G", "H", "I", "J", "K", "L",
    "M", "N", "O", "P", "Q", "R", "S", "T", "U", "V", "W", "X",
    "Y", "Z", "[", "\\", "]", "^", "_", "a", "b", "c", "d",
    "e", "f", "g", "h", "i", "j", "k", "l", "m", "n", "o", "p",
    "q", "r", "s", "t", "u", "v", "w", "x", "y", "z", "{", "|",
    "}", "~", "U+0130", "U+0307">>

Code(c) == CHOOSE i \in DOMAIN CodeOrder : CodeOrder[i] = c

StrLess(a, b) ==
  \E i \in 1..(Len(b)) :
    /\ \A j \in 1..(i - 1) : j <= Len(a) /\ a[j] = b[j]
    /\ (i > Len(a) \/ Code(a[i]) < Code(b[i]))

\* x goes after every element whose name is not greater than its own
Insert(t, x) ==
  LET k == Cardinality({i \in DOMAIN t : ~StrLess(x.name, t[i].name)})
  IN  SubSeq(t, 1, k) \o <<x>> \o SubSeq(t, k + 1, Len(t))

\* the entities left in source order
sorted_none(s) == s

RECURSIVE sorted(_)
sorted(s) ==
  IF s = <<>> THEN <<>> ELSE Insert(sorted(SubSeq(s, 1, Len(s) - 1)), s[Len(s)])

(***************************************************************************)
(* The state: the container, the unpacker's collections, the output tree.  *)
(***************************************************************************)
VARIABLES
  root,            \* the children of the container's root element
  shaders_only,    \* the --shaders-only flag of the run
  pc,              \* "parse", "parsed", "extracted", or the uncaught exception
  pos,             \* the child the loop of _parse is at
  guid_maps,       \* the identity -> name maps of extract, empty until built
  texgens, techniques, texture_pages, materials, models, scenes, events,
  render_targets, render_layers,
  dirs,            \* the directories of the output tree
  files,           \* the files of the output tree: path -> content
  writes,          \* the paths given to write_text, in call order
  arg,             \* an argument given to sanitize_filename
  rets,            \* what sanitize_filename returned, call after call
  apx_file,        \* the input path: "missing", "malformed" (not XML) or "ok"
  list_only,       \* the --list flag of the run
  exit_code,       \* the exit status of the process, <<>> while it runs
  stderr,          \* the diagnostics printed
  stdout,          \* the summary printed by list_contents
  runs,            \* the runs on this input and output directory so far
  previous,        \* the output tree and the exit status of the run before
  md_path,         \* the path of the markdown file given to the linker
  md_text,         \* the content of the markdown file
  calls            \* the calls of process_file so far, each with what it returned

collections ==
  <<texgens, techniques, texture_pages, materials, models, scenes, events,
    render_targets, render_layers>>

output == <<dirs, files, writes>>

process == <<apx_file, list_only, exit_code, stderr, stdout, runs, previous>>

linker == <<md_path, md_text, calls>>

vars ==
  <<root, shaders_only, pc, pos, collections, guid_maps, output, arg, rets, process,
    linker>>

\* every map with the name met first for an identity met twice
build_guid_maps_first ==
  [texgen        |-> name_map_first(texgens),
   technique     |-> name_map_first(techniques),
   render_target |-> name_map_first(render_targets),
   render_layer  |-> name_map_first(render_layers),
   material      |-> name_map_first(materials),
   model         |-> name_map_first(models),
   scene         |-> name_map_first(scenes),
   clip          |-> name_map_first(scene_clips(scenes))]

\* _build_guid_maps
build_guid_maps ==
  [texgen        |-> name_map(texgens),
   technique     |-> name_map(techniques),
   render_target |-> name_map(render_targets),
   render_layer  |-> name_map(render_layers),
   material      |-> name_map(materials),
   model         |-> name_map(models),
   scene         |-> name_map(scenes),
   clip          |-> name_map(scene_clips(scenes))]

(***************************************************************************)
(* The exported contents.  A source file is a sequence of lines; a line is *)
(* the literal part of its f-string with the values formatted into it.     *)
(* A JSON document is the dict (or list of dicts) given to json.dumps.     *)
(***************************************************************************)
NoLabel == Label("")

Line(tag, text, num, label, scope) ==
  [tag |-> tag, text |-> text, num |-> num, label |-> label, scope |-> scope]

Text(tag, text) == Line(tag, text, <<>>, NoLabel, NoLabel)

Blank == Text("", <<>>)

Banner == Text("// ======", <<>>)

param_type_label(n) == table_get(PARAM_TYPE_NAMES, n, LabelN("Type", n))

texgen_content(tg) ==
  LET ParamLine(p) ==
        Line("//   [{param_type}] {name} ({type_name})", p.name, <<p.param_type>>,
             param_type_label(p.param_type), NoLabel)
  IN  <<Text("// Texture Generator: {name}", tg.name), Text("// GUID: {guid}", tg.guid)>>
        \o (IF tg.parameters # <<>>
            THEN <<Text("// Parameters:", <<>>)>> \o Map(ParamLine, tg.parameters)
            ELSE <<>>)
        \o <<Blank, Text("{code}", tg.code)>>

\* any(p.code for p in tech.passes)
has_code(tech) == \E i \in DOMAIN tech.passes : tech.passes[i].code # <<>>

\* building the content of a technique's file raises IndexError
raises_technique_content(tech) ==
  \E i \in DOMAIN tech.passes :
    \E j \in DOMAIN tech.passes[i].parameters :
      raises_scope(tech.passes[i].parameters[j].scope)

\* the passes numbered from 0
pass_block_from_zero(sp, i) ==
  LET ParamLine(p) ==
        Line("//   * {name} ({ptype}, {scope})", p.name, <<>>,
             param_type_label(p.param_type), scope_label(p.scope))
  IN  <<Banner, Line("// Pass {i+1}: {name}", sp.name, <<i - 1>>, NoLabel, NoLabel)>>
        \o Map(ParamLine, sp.parameters)
        \o <<Banner, Blank>>
        \o <<IF sp.code # <<>> THEN Text("{code}", sp.code)
             ELSE Text("// (no shader code)", <<>>)>>
        \o <<Blank, Blank>>

pass_block(sp, i) ==
  LET ParamLine(p) ==
        Line("//   * {name} ({ptype}, {scope})", p.name, <<>>,
             param_type_label(p.param_type), scope_label(p.scope))
  IN  <<Banner, Line("// Pass {i+1}: {name}", sp.name, <<i>>, NoLabel, NoLabel)>>
        \o Map(ParamLine, sp.parameters)
        \o <<Banner, Blank>>
        \o <<IF sp.code # <<>> THEN Text("{code}", sp.code)
             ELSE Text("// (no shader code)", <<>>)>>
        \o <<Blank, Blank>>

RECURSIVE pass_blocks(_, _)
pass_blocks(passes, i) ==
  IF i > Len(passes) THEN <<>>
  ELSE pass_block(passes[i], i) \o pass_blocks(passes, i + 1)

\* "Unknown" in the place of the identity prefix
layer_name_unknown(tech, maps) == dict_get(maps.render_layer, tech.target_layer, Unknown)

\* the name written for the target layer of a technique
layer_name(tech, maps) ==
  dict_get(maps.render_layer, tech.target_layer, Prefix(tech.target_layer))

technique_content(tech, maps) ==
  <<Text("// Render Technique: {name}", tech.name),
    Line("// Type: {type_name}", <<>>, <<>>,
         table_get(TECHNIQUE_TYPE_NAMES, tech.technique_type, Label("Unknown")), NoLabel),
    Text("// GUID: {guid}", tech.guid)>>
    \o (IF Truthy(tech.target_layer)
        THEN <<Text("// Target Layer: {layer_name}", layer_name(tech, maps))>>
        ELSE <<>>)
    \o <<Blank>>
    \o pass_blocks(tech.passes, 1)

page_dict(page, maps) ==
  LET Annotated(op) ==
        [filter_name |-> dict_get(maps.texgen, op.filter_guid, Unknown)] @@ op
  IN  [page EXCEPT !.operators = Map(Annotated, page.operators)]

\* the identity prefix in the place of "Unknown"
mat_dict_prefix(mat, maps) ==
  [technique_name |-> dict_get(maps.technique, mat.technique_guid,
                               Prefix(mat.technique_guid))] @@ mat

mat_dict(mat, maps) ==
  [technique_name |-> dict_get(maps.technique, mat.technique_guid, Unknown)] @@ mat

event_dict(event, maps) ==
  (IF Truthy(event.clip_guid)
   THEN [clip_name |-> dict_get(maps.clip, event.clip_guid, Unknown)] ELSE <<>>)
  @@ (IF Truthy(event.scene_guid)
      THEN [scene_name |-> dict_get(maps.scene, event.scene_guid, Unknown)] ELSE <<>>)
  @@ [type_name |-> table_get(EVENT_TYPE_NAMES, event.event_type,
                              LabelN("Type", event.event_type)),
      target_rt_name |-> dict_get(maps.render_target, event.target_rt, Unknown)]
  @@ event

\* "Unknown" in the place of the identity prefix
layer_dict_unknown(layer, maps) ==
  LET Name(rt) == dict_get(maps.render_target, rt, Unknown)
  IN  [render_target_names |-> Map(Name, layer.render_targets)] @@ layer

layer_dict(layer, maps) ==
  LET Name(rt) == dict_get(maps.render_target, rt, Prefix(rt))
  IN  [render_target_names |-> Map(Name, layer.render_targets)] @@ layer

(***************************************************************************)
(* The output tree: a path is <<directory, file name>>, the directory      *)
(* relative to the output directory.                                       *)
(***************************************************************************)
TEXGEN_DIR == "shaders/texgen"

MATERIALS_DIR == "shaders/materials"

TIMELINE_JSON == <<"t","i","m","e","l","i","n","e">> \o JSON

MATERIALS_JSON == <<"m","a","t","e","r","i","a","l","s">> \o JSON

RENDER_TARGETS_JSON == <<"r","e","n","d","e","r","_","t","a","r","g","e","t","s">> \o JSON

RENDER_LAYERS_JSON == <<"r","e","n","d","e","r","_","l","a","y","e","r","s">> \o JSON

INDEX_MD == <<"i","n","d","e","x",".","m","d">>

Write(dir, filename, content) == [path |-> <<dir, filename>>, content |-> content]

PathOf(w) == w.path

\* _write_index: the links of index.md, group by group, and its counters
index_content ==
  LET Exported(tg) == tg.code # <<>>
      TexgenLink(tg) ==
        [name |-> tg.name, path |-> <<TEXGEN_DIR, sanitize_filename(tg.name) \o HLSL>>,
         lines |-> line_count(tg.code)]
      TechLink(tech) ==
        [name |-> tech.name, path |-> <<MATERIALS_DIR, sanitize_filename(tech.name) \o HLSL>>,
         type_name |-> table_get(TECHNIQUE_TYPE_NAMES, tech.technique_type, Label("Unknown"))]
      PageLink(page) ==
        [name |-> page.name, path |-> <<"textures", sanitize_filename(page.name) \o JSON>>,
         operators |-> Len(page.operators)]
      ModelLink(model) ==
        [name |-> model.name, path |-> <<"models", sanitize_filename(model.name) \o JSON>>,
         objects |-> Len(model.objects)]
      SceneLink(scene) ==
        [name |-> scene.name, path |-> <<"scenes", sanitize_filename(scene.name) \o JSON>>,
         objects |-> Len(scene.objects), clips |-> Len(scene.clips)]
      Duration == CHOOSE d \in {events[i].end_frame : i \in DOMAIN events} :
                    \A i \in DOMAIN events : events[i].end_frame <= d
  IN  [texgens        |-> Map(TexgenLink, SelectSeq(sorted(texgens), Exported)),
       techniques     |-> Map(TechLink, SelectSeq(sorted(techniques), has_code)),
       texture_pages  |-> Map(PageLink, sorted(texture_pages)),
       models         |-> Map(ModelLink, sorted(models)),
       scenes         |-> Map(SceneLink, sorted(scenes)),
       timeline       |-> IF events # <<>>
                          THEN <<[events |-> Len(events), duration |-> Duration]>>
                          ELSE <<>>,
       render_targets |-> Len(render_targets),
       render_layers  |-> Len(render_layers),
       materials      |-> Len(materials)]

\* the write_text calls of the texture generator loop
texgen_writes ==
  LET Exported(tg) == tg.code # <<>>
      File(tg) == Write(TEXGEN_DIR, sanitize_filename(tg.name) \o HLSL, texgen_content(tg))
  IN  Map(File, SelectSeq(texgens, Exported))

\* the techniques the loop reaches: all with code, up to the first one whose
\* content raises
reached_techniques ==
  LET exported == SelectSeq(techniques, has_code)
      raising == {i \in DOMAIN exported : raises_technique_content(exported[i])}
  IN  IF raising = {} THEN exported
      ELSE SubSeq(exported, 1, (CHOOSE i \in raising : \A j \in raising : i <= j) - 1)

raises_extract ==
  \E i \in DOMAIN techniques :
    has_code(techniques[i]) /\ raises_technique_content(techniques[i])

technique_writes(maps) ==
  LET File(tech) ==
        Write(MATERIALS_DIR, sanitize_filename(tech.name) \o HLSL,
              technique_content(tech, maps))
  IN  Map(File, reached_techniques)

\* the write_text calls after the shaders, in call order
json_writes(maps) ==
  LET PageFile(page) ==
        Write("textures", sanitize_filename(page.name) \o JSON, page_dict(page, maps))
      ModelFile(model) == Write("models", sanitize_filename(model.name) \o JSON, model)
      SceneFile(scene) == Write("scenes", sanitize_filename(scene.name) \o JSON, scene)
      MatDict(mat) == mat_dict(mat, maps)
      EventDict(event) == event_dict(event, maps)
      LayerDict(layer) == layer_dict(layer, maps)
  IN  Map(PageFile, texture_pages)
        \o (IF materials # <<>>
            THEN <<Write(".", MATERIALS_JSON, Map(MatDict, materials))>> ELSE <<>>)
        \o Map(ModelFile, models)
        \o Map(SceneFile, scenes)
        \o (IF events # <<>>
            THEN <<Write(".", TIMELINE_JSON, Map(EventDict, events))>> ELSE <<>>)
        \o (IF render_targets # <<>>
            THEN <<Write(".", RENDER_TARGETS_JSON, render_targets)>> ELSE <<>>)
        \o (IF render_layers # <<>>
            THEN <<Write(".", RENDER_LAYERS_JSON, Map(LayerDict, render_layers))>> ELSE <<>>)
        \o <<Write(".", INDEX_MD, index_content)>>

\* the directories made after the shaders
json_dirs ==
  (IF texture_pages # <<>> THEN {"textures"} ELSE {})
    \cup (IF models # <<>> THEN {"models"} ELSE {})
    \cup (IF scenes # <<>> THEN {"scenes"} ELSE {})

\* mkdir without exist_ok
exist_ok_false == FALSE

\* every mkdir of extract is given exist_ok=True
exist_ok == TRUE

\* Path.mkdir raises FileExistsError on a directory that exists, unless exist_ok
mkdir_raises(ds, d) == d \in ds /\ ~exist_ok

\* the first mkdir of extract, of the output directory itself, raises: the
\* other directories are under it and exist only when it does
raises_mkdir == mkdir_raises(dirs, ".")

\* extract whatever the flags
calls_extract_always == TRUE

\* main calls extract unless --list is given
calls_extract == ~list_only

\* write_text: a file that exists is overwritten
RECURSIVE write_all(_, _)
write_all(fs, log) ==
  IF log = <<>> THEN fs
  ELSE write_all((Head(log).path :> Head(log).content) @@ fs, Tail(log))

(***************************************************************************)
(* The statistics of list_contents.                                        *)
(***************************************************************************)
RECURSIVE Sum(_)
Sum(ns) == IF ns = <<>> THEN 0 ELSE Head(ns) + Sum(Tail(ns))

\* sum(len(p.operators) for p in self.texture_pages)
total_ops ==
  LET Operators(page) == Len(page.operators)
  IN  Sum(Map(Operators, texture_pages))

\* the lines of the texture generators with code and of the passes with code
total_shader_lines ==
  LET Exported(tg) == tg.code # <<>>
      Lines(x) == line_count(x.code)
      PassLines(tech) == Sum(Map(Lines, SelectSeq(tech.passes, Exported)))
  IN  Sum(Map(Lines, SelectSeq(texgens, Exported))) + Sum(Map(PassLines, techniques))

\* sum(len(cd.splines) for scene ... for obj ... for cd in obj.clip_data)
total_splines ==
  LET Splines(cd) == Len(cd.splines)
      ObjectSplines(obj) == Sum(Map(Splines, obj.clip_data))
      SceneSplines(scene) == Sum(Map(ObjectSplines, scene.objects))
  IN  Sum(Map(SceneSplines, scenes))

\* items[:n]
First(items, n) == SubSeq(items, 1, IF Len(items) < n THEN Len(items) ELSE n)

\* the "... and k more" line of a list cut at n
More(items, n) == IF Len(items) > n THEN <<Len(items) - n>> ELSE <<>>

\* what list_contents prints, section by section
list_summary ==
  LET Exported(x) == x.code # <<>>
      texgen_with_code == SelectSeq(texgens, Exported)
      tech_with_code == SelectSeq(techniques, has_code)
      Lines(x) == line_count(x.code)
      TexgenLine(tg) == [name |-> tg.name, lines |-> line_count(tg.code)]
      TechLine(tech) ==
        [type_name |-> table_get(TECHNIQUE_TYPE_NAMES, tech.technique_type, Label("Unknown")),
         name |-> tech.name, passes |-> Len(tech.passes),
         total_lines |-> Sum(Map(Lines, SelectSeq(tech.passes, Exported)))]
      PageLine(page) ==
        [name |-> page.name, ops |-> Len(page.operators),
         xres |-> page.xres, yres |-> page.yres]
      MatLine(mat) == [name |-> mat.name]
      ModelLine(model) == [name |-> model.name, objects |-> Len(model.objects)]
      SceneLine(scene) ==
        [name |-> scene.name, objs |-> Len(scene.objects), clips |-> Len(scene.clips)]
      EventLine(event) ==
        [type_name |-> table_get(EVENT_TYPE_NAMES, event.event_type,
                                 LabelN("Type", event.event_type)),
         start_frame |-> event.start_frame, end_frame |-> event.end_frame]
      Objects(x) == Len(x.objects)
      Clips(scene) == Len(scene.clips)
      duration_frames == CHOOSE d \in {events[i].end_frame : i \in DOMAIN events} :
                           \A i \in DOMAIN events : events[i].end_frame <= d
  IN  [texgens        |-> [count |-> Len(texgen_with_code),
                           shown |-> Map(TexgenLine, First(texgen_with_code, 8)),
                           more  |-> More(texgen_with_code, 8)],
       techniques     |-> [count |-> Len(tech_with_code),
                           shown |-> Map(TechLine, First(tech_with_code, 10)),
                           more  |-> More(tech_with_code, 10)],
       texture_pages  |-> [count |-> Len(texture_pages), total_ops |-> total_ops,
                           shown |-> Map(PageLine, First(texture_pages, 5)),
                           more  |-> More(texture_pages, 5)],
       materials      |-> [count |-> Len(materials),
                           shown |-> Map(MatLine, First(materials, 5)),
                           more  |-> More(materials, 5)],
       models         |-> [count |-> Len(models), total_objects |-> Sum(Map(Objects, models)),
                           shown |-> Map(ModelLine, First(models, 5)),
                           more  |-> More(models, 5)],
       scenes         |-> [count |-> Len(scenes),
                           total_scene_objects |-> Sum(Map(Objects, scenes)),
                           total_clips |-> Sum(Map(Clips, scenes)),
                           shown |-> Map(SceneLine, First(scenes, 5)),
                           more  |-> More(scenes, 5)],
       timeline       |-> IF events # <<>>
                          THEN <<[count |-> Len(events), duration |-> duration_frames,
                                  shown |-> Map(EventLine, First(events, 5)),
                                  more  |-> More(events, 5)]>>
                          ELSE <<>>,
       render_targets |-> Len(render_targets),
       render_layers  |-> Len(render_layers),
       statistics     |-> [total_shader_lines |-> total_shader_lines,
                           total_splines |-> total_splines,
                           total_ops |-> total_ops]]

(***************************************************************************)
(* The reference linker (scripts/link_references.py).  A position in a str *)
(* is Python's: the first character is at 0.  The backquote is the token   *)
(* "U+0060".                                                               *)
(***************************************************************************)
BQ == "U+0060"

\* text[a:b]
Slice(text, a, b) == SubSeq(text, a + 1, b)

\* text.count(c), of a character
count(text, c) == Cardinality({i \in DOMAIN text : text[i] = c})

\* text[p:].startswith(sub)
At(text, sub, p) == p + Len(sub) <= Len(text) /\ Slice(text, p, p + Len(sub)) = sub

startswith(text, sub) == At(text, sub, 0)

endswith(text, sub) == Len(sub) <= Len(text) /\ At(text, sub, Len(text) - Len(sub))

\* sub in text
contains(text, sub) == \E p \in 0..Len(text) : At(text, sub, p)

\* text.rfind(sub), of a sub that occurs
rfind(text, sub) ==
  CHOOSE p \in 0..Len(text) : At(text, sub, p) /\ \A r \in (p + 1)..Len(text) : ~At(text, sub, r)

\* the position of the first character c at or after p, -1 if there is none
Find(text, c, p) ==
  LET at == {i \in p..(Len(text) - 1) : i >= 0 /\ text[i + 1] = c}
  IN  IF at = {} THEN 0 - 1 ELSE CHOOSE i \in at : \A j \in at : i <= j

\* content.split('\n')
RECURSIVE split(_)
split(text) ==
  LET nl == Find(text, "\n", 0)
  IN  IF nl < 0 THEN <<text>>
      ELSE <<Slice(text, 0, nl)>> \o split(Slice(text, nl + 1, Len(text)))

\* '\n'.join(parts)
RECURSIVE join(_)
join(parts) ==
  IF parts = <<>> THEN <<>>
  ELSE IF Len(parts) = 1 THEN parts[1]
  ELSE parts[1] \o <<"\n">> \o join(Tail(parts))

\* str(n) of an int that is not negative
RECURSIVE str(_)
str(n) == IF n < 10 THEN <<Digits[n + 1]>> ELSE str(n \div 10) \o <<Digits[(n % 10) + 1]>>

\* references.json: a framework with a file mapping and a base path, a
\* library with an alias, a library whose name is an English word, a tool
registry ==
  [frameworks |-> <<[name |-> <<"d","r","a","w","b","o","t">>, github |-> <<"g",".","i","o","/","d">>, branch |-> <<>>,
                     base_path |-> <<"s","r","c">>,
                     file_mappings |-> <<[key |-> <<"a",".","p","y">>, value |-> <<"l","i","b","/","a",".","p","y">>]>>]>>,
   libraries  |-> <<[name |-> <<"w","g","p","u">>, url |-> <<"w",".","i","o">>, aliases |-> <<<<"w","g","p","u","-","r","s">>>>],
                    [name |-> <<"i","m","a","g","e">>, url |-> <<"i",".","i","o">>, aliases |-> <<>>]>>,
   tools      |-> <<[name |-> <<"f","f","m","p","e","g">>, url |-> <<"f",".","i","o">>]>>]

\* patterns[key] = (name, url): a key set again keeps its place
PatternPut(patterns, key, name, url) ==
  LET entry == [key |-> key, name |-> name, url |-> url]
  IN  IF \E i \in DOMAIN patterns : patterns[i].key = key
      THEN [i \in DOMAIN patterns |-> IF patterns[i].key = key THEN entry ELSE patterns[i]]
      ELSE Append(patterns, entry)

RECURSIVE PutAliases(_, _, _, _)
PutAliases(patterns, aliases, name, url) ==
  IF aliases = <<>> THEN patterns
  ELSE PutAliases(PatternPut(patterns, lower(Head(aliases)), name, url),
                  Tail(aliases), name, url)

\* _build_library_patterns
RECURSIVE build_library_patterns(_, _)
build_library_patterns(patterns, libraries) ==
  IF libraries = <<>> THEN patterns
  ELSE LET info == Head(libraries)
       IN  build_library_patterns(
             PutAliases(PatternPut(patterns, lower(info.name), info.name, info.url),
                        info.aliases, info.name, info.url),
             Tail(libraries))

\* _build_tool_patterns
RECURSIVE build_tool_patterns(_, _)
build_tool_patterns(patterns, tools) ==
  IF tools = <<>> THEN patterns
  ELSE build_tool_patterns(
         PatternPut(patterns, lower(Head(tools).name), Head(tools).name, Head(tools).url),
         Tail(tools))

library_patterns == build_library_patterns(<<>>, registry.libraries)

tool_patterns == build_tool_patterns(<<>>, registry.tools)

\* detect_framework_context: the first framework whose name is in the
\* lowered path, as a FileContext; no element for None
detect_framework_context(file_path) ==
  LET named == SelectSeq(registry.frameworks,
                         LAMBDA fw : contains(lower(file_path), fw.name))
  IN  IF named = <<>> THEN <<>>
      ELSE <<[framework |-> named[1].name, github_base |-> named[1].github,
              branch |-> IF named[1].branch = <<>> THEN <<"m","a","i","n">>
                         ELSE named[1].branch[1]]>>

\* get_file_url; line_start and line_end have no element for None
get_file_url(filename, context, line_start, line_end) ==
  LET known == SelectSeq(registry.frameworks, LAMBDA fw : fw.name = context.framework)
      base_path == IF known = <<>> THEN <<>> ELSE known[1].base_path
      file_mappings == IF known = <<>> THEN <<>> ELSE known[1].file_mappings
      mapped == SelectSeq(file_mappings, LAMBDA kv : kv.key = filename)
      rel_path == IF mapped # <<>> THEN mapped[1].value
                  ELSE IF base_path # <<>> THEN base_path \o <<"/">> \o filename
                  ELSE filename
      url == context.github_base \o <<"/","b","l","o","b","/">> \o context.branch \o <<"/">> \o rel_path
      starts == line_start # <<>> /\ line_start[1] # 0
      ends == line_end # <<>> /\ line_end[1] # 0
  IN  IF ~starts THEN url
      ELSE IF ends /\ line_end[1] # line_start[1]
           THEN url \o <<"#","L">> \o str(line_start[1]) \o <<"-","L">> \o str(line_end[1])
           ELSE url \o <<"#","L">> \o str(line_start[1])

\* the match of link_pattern that starts at a, if there is one: "[", a text
\* without "]" that holds the matched text, "](", a URL of one character or
\* more without ")", ")"
link_match(text, matched, a) ==
  LET b == Find(text, "]", a + 1)
      c == Find(text, ")", b + 2)
  IN  IF /\ a < Len(text) /\ text[a + 1] = "["
         /\ b >= 0
         /\ contains(Slice(text, a + 1, b), matched)
         /\ At(text, <<"]","(">>, b)
         /\ c >= b + 3
      THEN <<[start |-> a, end |-> c + 1]>>
      ELSE <<>>

\* re.finditer(link_pattern, text), scanning from a
RECURSIVE link_matches(_, _, _)
link_matches(text, matched, a) ==
  IF a >= Len(text) THEN <<>>
  ELSE LET m == link_match(text, matched, a)
       IN  IF m # <<>> THEN m \o link_matches(text, matched, m[1].end)
           ELSE link_matches(text, matched, a + 1)

is_inside_link(text, match_start, match_end) ==
  LET before == Slice(text, 0, match_start)
      after == Slice(text, match_end, Len(text))
      open_brackets == count(before, "[") - count(before, "]")
      url_part == Slice(before, rfind(before, <<"]","(">>) + 2, Len(before))
      links == link_matches(text, Slice(text, match_start, match_end), 0)
  IN  \/ open_brackets > 0 /\ contains(after, <<"]","(">>)
      \/ endswith(before, <<"[">>) /\ startswith(after, <<"]","(">>)
      \/ contains(before, <<"]","(">>) /\ ~contains(url_part, <<")">>)
      \/ \E i \in DOMAIN links : links[i].start <= match_start /\ match_start < links[i].end

\* the fences among lines[:line_idx] are odd in number
is_inside_code_block(lines, line_idx) ==
  Cardinality({i \in 1..line_idx : startswith(strip(lines[i]), <<BQ, BQ, BQ>>)}) % 2 = 1

\* line.strip()[:80]
Context(line) == LET t == strip(line) IN Slice(t, 0, IF Len(t) < 80 THEN Len(t) ELSE 80)

Reference(original, linked, line_num, ref_type, context, position) ==
  [original |-> original, linked |-> linked, line_num |-> line_num,
   ref_type |-> ref_type, context |-> context, position |-> position]

Extensions == <<<<"p","y">>, <<"r","s">>, <<"k","t">>, <<"j","s">>, <<"t","s">>, <<"j","a","v","a">>, <<"c","p","p">>, <<"h">>>>

Letters == Range(UpperCase) \cup Range(LowerCase)

\* [a-zA-Z_][a-zA-Z0-9_]*
IsIdentifier(s) ==
  /\ s # <<>>
  /\ s[1] \in Letters \cup {"_"}
  /\ \A i \in DOMAIN s : s[i] \in Letters \cup Range(Digits) \cup {"_"}

\* \d+
IsDigits(s) == s # <<>> /\ \A i \in DOMAIN s : s[i] \in Range(Digits)

\* s cut at its first character c: what is before it and what is after it,
\* or s alone when c is not in it
Cut(s, c) ==
  IF Find(s, c, 0) < 0 THEN <<s>>
  ELSE <<Slice(s, 0, Find(s, c, 0)), Slice(s, Find(s, c, 0) + 1, Len(s))>>

\* the groups of the file pattern in what is between two backquotes: a
\* name, ".", an extension, then ":line" or ":line-line" or neither
file_groups(inner) ==
  LET named == Cut(inner, ".")
      ext == Cut(named[2], ":")
      range == Cut(ext[2], "-")
  IN  IF /\ Len(named) = 2
         /\ IsIdentifier(named[1])
         /\ ext[1] \in Range(Extensions)
         /\ (Len(ext) = 2 => IsDigits(range[1]))
         /\ (Len(ext) = 2 /\ Len(range) = 2 => IsDigits(range[2]))
      THEN <<[filename |-> named[1] \o <<".">> \o ext[1],
              line_start |-> IF Len(ext) = 2 THEN <<int(range[1])>> ELSE <<>>,
              line_end |-> IF Len(ext) = 2 /\ Len(range) = 2 THEN <<int(range[2])>> ELSE <<>>]>>
      ELSE <<>>

\* the match of the file pattern that starts at p, if there is one: a
\* backquote not after "[", the groups, the next backquote
file_match(line, p) ==
  IF /\ p < Len(line) /\ line[p + 1] = BQ
     /\ (p = 0 \/ line[p] # "[")
     /\ Find(line, BQ, p + 1) >= 0
     /\ file_groups(Slice(line, p + 1, Find(line, BQ, p + 1))) # <<>>
  THEN <<[start |-> p, end |-> Find(line, BQ, p + 1) + 1]>>
  ELSE <<>>

\* f"{filename}", f":{line_start}" and f"-{line_end}" for what is not None or 0
display(groups) ==
  groups.filename
    \o (IF groups.line_start # <<>> /\ groups.line_start[1] # 0
        THEN <<":">> \o str(groups.line_start[1]) ELSE <<>>)
    \o (IF /\ groups.line_start # <<>> /\ groups.line_start[1] # 0
           /\ groups.line_end # <<>> /\ groups.line_end[1] # 0
        THEN <<"-">> \o str(groups.line_end[1]) ELSE <<>>)

\* the reference of a match of the file pattern
file_ref(line, line_num, context, start, end, groups) ==
  Reference(Slice(line, start, end),
            <<"[", BQ>> \o display(groups) \o <<BQ>> \o <<"]","(">>
              \o get_file_url(groups.filename, context, groups.line_start, groups.line_end)
              \o <<")">>,
            line_num, "file", Context(line), start)

\* the file references of a line: re.finditer(pattern, line), scanning from p
RECURSIVE line_files(_, _, _, _)
line_files(line, line_num, context, p) ==
  IF p >= Len(line) THEN <<>>
  ELSE IF file_match(line, p) = <<>> THEN line_files(line, line_num, context, p + 1)
  ELSE (IF /\ ~is_inside_link(line, p, Find(line, BQ, p + 1) + 1)
           /\ context # <<>>
        THEN <<file_ref(line, line_num, context[1], p, Find(line, BQ, p + 1) + 1,
                        file_groups(Slice(line, p + 1, Find(line, BQ, p + 1)))[1])>>
        ELSE <<>>)
         \o line_files(line, line_num, context, Find(line, BQ, p + 1) + 1)

\* the lines outside fenced code, each with its number
RECURSIVE Concat(_)
Concat(seqs) == IF seqs = <<>> THEN <<>> ELSE Head(seqs) \o Concat(Tail(seqs))

find_unlinked_files(lines, context) ==
  Concat([n \in DOMAIN lines |->
            IF is_inside_code_block(lines, n - 1) THEN <<>>
            ELSE line_files(lines[n], n, context, 0)])

IsWordAt(line, p) == p >= 0 /\ p < Len(line) /\ IsWord(line[p + 1])

\* \b at the position p
Boundary(line, p) == IsWordAt(line, p - 1) # IsWordAt(line, p)

\* the starts of re.finditer(rf'\b{name}\b', line, re.IGNORECASE), from p
RECURSIVE word_matches(_, _, _)
word_matches(line, name, p) ==
  IF p + Len(name) > Len(line) THEN <<>>
  ELSE IF /\ lower(Slice(line, p, p + Len(name))) = lower(name)
          /\ Boundary(line, p) /\ Boundary(line, p + Len(name))
       THEN <<p>> \o word_matches(line, name, p + Len(name))
       ELSE word_matches(line, name, p + 1)

\* the starts of re.finditer(re.escape(literal), line), from p
RECURSIVE literal_matches(_, _, _)
literal_matches(line, literal, p) ==
  IF p + Len(literal) > Len(line) THEN <<>>
  ELSE IF At(line, literal, p) THEN <<p>> \o literal_matches(line, literal, p + Len(literal))
  ELSE literal_matches(line, literal, p + 1)

\* the references to one name in one line, as a word outside inline code
word_refs(line, line_num, entry, ref_type) ==
  LET Kept(p) == /\ ~is_inside_link(line, p, p + Len(entry.name))
                 /\ count(Slice(line, 0, p), BQ) % 2 = 0
      Ref(p) == LET original == Slice(line, p, p + Len(entry.name))
                IN  Reference(original, <<"[">> \o original \o <<"]","(">> \o entry.url \o <<")">>,
                              line_num, ref_type, Context(line), p)
  IN  Map(Ref, SelectSeq(word_matches(line, entry.name, 0), Kept))

\* the references to one name in one line, between backquotes
quoted_refs(line, line_num, entry) ==
  LET literal == <<BQ>> \o entry.name \o <<BQ>>
      Kept(p) == ~is_inside_link(line, p, p + Len(literal))
      Ref(p) == Reference(literal, <<"[">> \o literal \o <<"]","(">> \o entry.url \o <<")">>,
                          line_num, "library", Context(line), p)
  IN  Map(Ref, SelectSeq(literal_matches(line, literal, 0), Kept))

ambiguous_names == {<<"i","m","a","g","e">>, <<"p","a","l","e","t","t","e">>, <<"l","y","o","n">>}

find_unlinked_libraries(lines) ==
  LET OfLine(n) ==
        LET OfEntry(entry) == IF entry.key \in ambiguous_names
                              THEN quoted_refs(lines[n], n, entry)
                              ELSE word_refs(lines[n], n, entry, "library")
        IN  IF is_inside_code_block(lines, n - 1) THEN <<>>
            ELSE Concat(Map(OfEntry, library_patterns))
  IN  Concat([n \in DOMAIN lines |-> OfLine(n)])

find_unlinked_tools(lines) ==
  LET OfLine(n) ==
        LET OfEntry(entry) == word_refs(lines[n], n, entry, "tool")
        IN  IF is_inside_code_block(lines, n - 1) THEN <<>>
            ELSE Concat(Map(OfEntry, tool_patterns))
  IN  Concat([n \in DOMAIN lines |-> OfLine(n)])

\* the first reference of each (line_num, original)
unique(all_refs) ==
  LET First_(i) == \A j \in 1..(i - 1) :
                     ~(/\ all_refs[j].line_num = all_refs[i].line_num
                       /\ all_refs[j].original = all_refs[i].original)
      keep == {i \in DOMAIN all_refs : First_(i)}
      RECURSIVE Pick(_)
      Pick(i) == IF i > Len(all_refs) THEN <<>>
                 ELSE (IF i \in keep THEN <<all_refs[i]>> ELSE <<>>) \o Pick(i + 1)
  IN  Pick(1)

\* the line with its references replaced, the one at the greatest position
\* first, the earlier of two at one position first
RECURSIVE replace_refs(_, _)
replace_refs(line, line_refs) ==
  IF line_refs = <<>> THEN line
  ELSE LET i == CHOOSE i \in DOMAIN line_refs :
                  /\ \A j \in DOMAIN line_refs : line_refs[j].position <= line_refs[i].position
                  /\ \A j \in 1..(i - 1) : line_refs[j].position < line_refs[i].position
           ref == line_refs[i]
           end_pos == ref.position + Len(ref.original)
           rest == SubSeq(line_refs, 1, i - 1) \o SubSeq(line_refs, i + 1, Len(line_refs))
       IN  replace_refs(Slice(line, 0, ref.position) \o ref.linked
                          \o Slice(line, end_pos, Len(line)), rest)

\* the file written whenever a reference is found
writes_file_always(apply, unique_refs) == unique_refs # <<>>

\* if apply and unique_refs
writes_file(apply, unique_refs) == apply /\ unique_refs # <<>>

\* the references of the three kinds, in the order process_file collects them
all_refs(lines, context) ==
  find_unlinked_files(lines, context)
    \o find_unlinked_libraries(lines)
    \o find_unlinked_tools(lines)

\* '\n'.join(new_lines), each line with its references replaced
new_content(lines, unique_refs) ==
  join([n \in DOMAIN lines |->
          replace_refs(lines[n], SelectSeq(unique_refs, LAMBDA ref : ref.line_num = n))])

\* the end of process_file: the list returned and the content given to
\* write_text, if it is called
apply_refs(lines, unique_refs, apply) ==
  [refs |-> unique_refs,
   written |-> IF writes_file(apply, unique_refs)
               THEN <<new_content(lines, unique_refs)>> ELSE <<>>]

\* process_file on a file of the given content
process_file(file_path, content, apply) ==
  apply_refs(split(content),
             unique(all_refs(split(content), detect_framework_context(file_path))),
             apply)

(***************************************************************************)
(* Actions.                                                                *)
(***************************************************************************)
Recognized ==
  {"rendertechnique", "rendertarget", "renderlayer", "texturepage",
   "material", "model", "scene", "event"}

\* decoding the child raises ValueError
raises_child(elem) ==
  CASE elem.tag = "rendertechnique" -> raises_render_technique(elem)
    [] elem.tag = "rendertarget"    -> raises_render_target(elem)
    [] elem.tag = "renderlayer"     -> FALSE
    [] elem.tag = "texturepage"     -> raises_texture_page(elem)
    [] elem.tag = "material"        -> FALSE
    [] elem.tag = "model"           -> raises_model(elem)
    [] elem.tag = "scene"           -> raises_scene(elem)
    [] elem.tag = "event"           -> raises_timeline_event(elem)
    [] OTHER                        -> raises_texture_generator(elem)

\* the entity put at the front of the collection instead of its end
Keep_front(tag, elem, collection, parsed) ==
  IF elem.tag = tag THEN <<parsed>> \o collection ELSE collection

Keep(tag, elem, collection, parsed) ==
  IF elem.tag = tag THEN Append(collection, parsed) ELSE collection

\* one iteration of the loop of _parse
ParseChild ==
  /\ pc = "parse"
  /\ pos <= Len(root)
  /\ LET elem == root[pos]
     IN  IF raises_child(elem)
         THEN /\ pc' = "ValueError"
              /\ UNCHANGED <<pos, collections>>
         ELSE /\ pc' = pc
              /\ pos' = pos + 1
              /\ techniques' = Keep("rendertechnique", elem, techniques, parse_render_technique(elem))
              /\ render_targets' = Keep("rendertarget", elem, render_targets, parse_render_target(elem))
              /\ render_layers' = Keep("renderlayer", elem, render_layers, parse_render_layer(elem))
              /\ texture_pages' = Keep("texturepage", elem, texture_pages, parse_texture_page(elem))
              /\ materials' = Keep("material", elem, materials, parse_material(elem))
              /\ models' = Keep("model", elem, models, parse_model(elem))
              /\ scenes' = Keep("scene", elem, scenes, parse_scene(elem))
              /\ events' = Keep("event", elem, events, parse_timeline_event(elem))
              /\ texgens' = IF elem.tag \notin Recognized /\ texgen_shape(elem)
                            THEN Append(texgens, parse_texture_generator(elem))
                            ELSE texgens
  /\ UNCHANGED <<root, shaders_only, guid_maps, output, arg, rets, process,
                 linker>>

\* the constructor returns before the loop went through every child
ParseDone_early ==
  /\ pc = "parse"
  /\ pc' = "parsed"
  /\ UNCHANGED <<root, shaders_only, pos, collections, guid_maps, output, arg, rets, process,
                 linker>>

\* the loop of _parse is over: the constructor returns
ParseDone ==
  /\ pc = "parse"
  /\ pos > Len(root)
  /\ pc' = "parsed"
  /\ UNCHANGED <<root, shaders_only, pos, collections, guid_maps, output, arg, rets, process,
                 linker>>

\* extract that goes on to the documents whatever the flag
Extract_full ==
  /\ pc = "parsed"
  /\ calls_extract
  /\ IF raises_mkdir
     THEN /\ pc' = "FileExistsError"
          /\ UNCHANGED <<guid_maps, output>>
     ELSE /\ guid_maps' = build_guid_maps
          /\ LET log == texgen_writes \o technique_writes(guid_maps')
                          \o (IF raises_extract THEN <<>> ELSE json_writes(guid_maps'))
             IN  /\ dirs' = dirs \cup {".", "shaders", TEXGEN_DIR, MATERIALS_DIR}
                              \cup (IF raises_extract THEN {} ELSE json_dirs)
                 /\ files' = write_all(files, log)
                 /\ writes' = writes \o Map(PathOf, log)
                 /\ pc' = IF raises_extract THEN "IndexError" ELSE "extracted"
  /\ UNCHANGED <<root, shaders_only, pos, collections, arg, rets, process,
                 linker>>

\* the annotations of the events written to the events themselves
Extract_in_place ==
  /\ pc = "parsed"
  /\ calls_extract
  /\ IF raises_mkdir
     THEN /\ pc' = "FileExistsError"
          /\ UNCHANGED <<guid_maps, output>>
     ELSE /\ guid_maps' = build_guid_maps
          /\ LET log == texgen_writes \o technique_writes(guid_maps')
                          \o (IF raises_extract \/ shaders_only THEN <<>>
                              ELSE json_writes(guid_maps'))
             IN  /\ dirs' = dirs \cup {".", "shaders", TEXGEN_DIR, MATERIALS_DIR}
                              \cup (IF raises_extract \/ shaders_only THEN {} ELSE json_dirs)
                 /\ files' = write_all(files, log)
                 /\ writes' = writes \o Map(PathOf, log)
                 /\ pc' = IF raises_extract THEN "IndexError" ELSE "extracted"
  /\ events' = IF raises_mkdir THEN events
               ELSE LET EventDict(event) == event_dict(event, build_guid_maps)
                    IN  Map(EventDict, events)
  /\ UNCHANGED <<root, shaders_only, pos, texgens, techniques, texture_pages, materials,
                 models, scenes, render_targets, render_layers, arg, rets, process,
                 linker>>

\* extract(output_dir, shaders_only)
Extract ==
  /\ pc = "parsed"
  /\ calls_extract
  /\ IF raises_mkdir
     THEN /\ pc' = "FileExistsError"
          /\ UNCHANGED <<guid_maps, output>>
     ELSE /\ guid_maps' = build_guid_maps
          /\ LET log == texgen_writes \o technique_writes(guid_maps')
                          \o (IF raises_extract \/ shaders_only THEN <<>>
                              ELSE json_writes(guid_maps'))
             IN  /\ dirs' = dirs \cup {".", "shaders", TEXGEN_DIR, MATERIALS_DIR}
                              \cup (IF raises_extract \/ shaders_only THEN {} ELSE json_dirs)
                 /\ files' = write_all(files, log)
                 /\ writes' = writes \o Map(PathOf, log)
                 /\ pc' = IF raises_extract THEN "IndexError" ELSE "extracted"
  /\ UNCHANGED <<root, shaders_only, pos, collections, arg, rets, process,
                 linker>>

\* main up to the constructor: a missing input and a container that is not
\* XML end the process with a diagnostic and the status 1
Main ==
  /\ pc = "main"
  /\ IF apx_file = "missing"
     THEN /\ stderr' = Append(stderr, "Error: File not found")
          /\ exit_code' = <<1>>
          /\ pc' = "SystemExit"
     ELSE IF apx_file = "malformed"
     THEN /\ stderr' = Append(stderr, "Error: Failed to parse XML")
          /\ exit_code' = <<1>>
          /\ pc' = "SystemExit"
     ELSE /\ pc' = "parse"
          /\ UNCHANGED <<stderr, exit_code>>
  /\ UNCHANGED <<root, shaders_only, pos, collections, guid_maps, output, arg, rets,
                 apx_file, list_only, stdout, runs, previous, linker>>

\* unpacker.list_contents()
ListContents ==
  /\ pc = "parsed"
  /\ list_only
  /\ stdout' = Append(stdout, list_summary)
  /\ pc' = "listed"
  /\ UNCHANGED <<root, shaders_only, pos, collections, guid_maps, output, arg, rets,
                 apx_file, list_only, exit_code, stderr, runs, previous, linker>>

\* the exceptions that nothing catches
Uncaught == {"ValueError", "IndexError", "FileExistsError"}

\* the interpreter ends: status 0 when main returns, a traceback and the
\* status 1 on an exception that nothing caught
Exit ==
  /\ pc \in {"extracted", "listed"} \cup Uncaught
  /\ exit_code = <<>>
  /\ exit_code' = <<IF pc \in Uncaught THEN 1 ELSE 0>>
  /\ stderr' = IF pc \in Uncaught THEN Append(stderr, "Traceback") ELSE stderr
  /\ UNCHANGED <<root, shaders_only, pc, pos, collections, guid_maps, output, arg, rets,
                 apx_file, list_only, stdout, runs, previous, linker>>

\* the runs of one command line
MaxRuns == 2

\* the same command line is given again: a new process, the same input and
\* flags, the output directory as the run before left it
Rerun ==
  /\ exit_code # <<>>
  /\ runs < MaxRuns
  /\ runs' = runs + 1
  /\ previous' = <<[dirs |-> dirs, files |-> files, writes |-> writes,
                    exit_code |-> exit_code]>>
  /\ pc' = "main"
  /\ pos' = 1
  /\ texgens' = <<>> /\ techniques' = <<>> /\ texture_pages' = <<>>
  /\ materials' = <<>> /\ models' = <<>> /\ scenes' = <<>> /\ events' = <<>>
  /\ render_targets' = <<>> /\ render_layers' = <<>>
  /\ guid_maps' = <<>>
  /\ writes' = <<>>
  /\ exit_code' = <<>> /\ stderr' = <<>> /\ stdout' = <<>>
  /\ UNCHANGED <<root, shaders_only, dirs, files, arg, rets, apx_file, list_only, linker>>

\* the calls of process_file on one file
MaxCalls == 2

\* linker.process_file(file_path, apply=args.apply), in a run with --apply
\* or in one without
ProcessFile ==
  /\ pc = "linker"
  /\ Len(calls) < MaxCalls
  /\ \E apply \in BOOLEAN :
       \E result \in {process_file(md_path, md_text, apply)} :
         /\ md_text' = IF result.written # <<>> THEN result.written[1] ELSE md_text
         /\ calls' = Append(calls, [apply |-> apply, before |-> md_text,
                                   refs |-> result.refs,
                                   wrote |-> result.written # <<>>])
  /\ UNCHANGED <<root, shaders_only, pc, pos, collections, guid_maps, output, arg, rets,
                 process, md_path>>

\* a call of sanitize_filename, on the argument and then on what it returned
Sanitize ==
  /\ pc = "slug"
  /\ Len(rets) < 2
  /\ rets' = Append(rets, sanitize_filename(IF rets = <<>> THEN arg ELSE rets[Len(rets)]))
  /\ UNCHANGED <<root, shaders_only, pc, pos, collections, guid_maps, output, arg, process,
                 linker>>

(***************************************************************************)
(* Containers.  T is an element with text, N one with children, A one with *)
(* attributes.                                                             *)
(***************************************************************************)
T(tag, text) == E(tag, text, <<>>, <<>>)

N(tag, children) == E(tag, None, <<>>, children)

A(tag, attrib, children) == E(tag, None, attrib, children)

\* the longest container of a run
MaxChildren == 3

\* the longest argument of sanitize_filename
MaxNameLen == 3

SeqsUpTo(S, n) == UNION {[1..k -> S] : k \in 0..n}

\* identities longer than PrefixLen characters
RT1 == <<"r","t","0","0","0","0","0","0","0","0","0","0","0","0","0","0","1">>

RL1 == <<"r","l","0","0","0","0","0","0","0","0","0","0","0","0","0","0","1">>

X9 == <<"x","9","0","0","0","0","0","0","0","0","0","0","0","0","0","0","0","9">>

Glow == <<"G","l","o","w">>

\* records with every field, for the references and the names of the export
ExportChildren ==
  { N("texgen", <<T("GUID", <<"g","1">>), T("Name", <<"F","i","r","e">>),
                  T("Code", <<"a","&","l","t",";","b","\r","\n","c">>),
                  N("Parameter", <<T("Name", <<"p">>), T("Type", <<"1">>)>>)>>),
    N("texgen", <<T("GUID", <<"g","2">>), T("Name", <<"f","i","r","e">>),
                  T("Code", <<"x">>)>>),
    N("rendertechnique", <<T("GUID", <<"t","1">>), T("Name", Glow), T("Type", <<"0">>),
                           T("TargetLayer", RL1),
                           N("Pass", <<T("Name", <<"M","a","i","n">>), T("Code", <<"x">>),
                                       N("Parameter", <<T("Name", <<"p">>), T("Scope", <<"2">>)>>)>>)>>),
    N("texturepage", <<T("GUID", <<"p","1">>), T("Name", <<"T","e","x">>),
                       N("Operator", <<T("GUID", <<"o","1">>), T("Filter", <<"g","1">>)>>),
                       N("Operator", <<T("GUID", <<"o","2">>), T("Filter", X9)>>)>>),
    N("material", <<T("GUID", <<"m","1">>), T("Name", <<"M","a","t">>), T("Tech", <<"t","1">>)>>),
    N("model", <<T("GUID", <<"d","1">>), T("Name", <<"S","h","i","p">>),
                 N("Object", <<T("GUID", <<"b","1">>)>>)>>),
    N("scene", <<T("GUID", <<"s","1">>), T("Name", <<"O","p","e","n","i","n","g">>),
                 N("Clip", <<T("GUID", <<"c","1">>), T("Name", <<"I","n","t","r","o">>)>>),
                 N("Clip", <<T("GUID", <<"c","2">>), T("Name", <<"L","o","o","p">>)>>)>>),
    N("scene", <<T("GUID", <<"s","2">>), T("Name", <<"E","n","d">>),
                 N("Clip", <<T("GUID", <<"c","1">>), T("Name", <<"O","u","t","r","o">>)>>)>>),
    N("event", <<T("GUID", <<"e","1">>), T("Type", <<"0">>), T("EndFrame", <<"9">>),
                 T("TargetRT", RT1), T("scene", <<"s","1">>), T("clip", <<"c","1">>)>>),
    N("rendertarget", <<T("GUID", RT1), T("Name", <<"M","a","i","n">>)>>),
    N("renderlayer", <<T("GUID", RL1), T("Name", <<"S","o","l","i","d">>),
                       T("RenderTarget", RT1), N("RenderTarget", <<>>),
                       T("RenderTarget", X9)>>) }

\* records with fields absent, empty or invalid, for the decoding
DecodeChildren ==
  { N("rendertechnique", <<T("GUID", <<"t","1">>), T("Name", Glow), T("Type", <<"1">>),
                           N("Pass", <<T("Name", <<"M","a","i","n">>), T("Code", <<"x">>)>>)>>),
    N("rendertechnique", <<N("Pass", <<N("Parameter", <<>>)>>)>>),
    N("rendertarget", <<T("GUID", RT1), T("ResolutionDescriptor", <<" ","5">>)>>),
    N("rendertarget", <<>>),
    N("rendertarget", <<T("GUID", <<"r","2">>), N("ResolutionDescriptor", <<>>)>>),
    N("renderlayer", <<>>),
    N("texturepage", <<N("Operator", <<>>)>>),
    N("texturepage", <<T("GUID", <<"p","2">>), T("xres", <<"4">>),
                       N("Operator", <<T("x1", <<"a","b","c">>)>>)>>),
    N("material", <<>>),
    N("model", <<A("Object", <<>>, <<N("Filter", <<>>)>>)>>),
    N("scene", <<N("Clip", <<>>),
                 N("Object", <<N("clipdata", <<N("clipspline",
                     <<N("spline", <<N("value", <<>>), N("key", <<>>)>>)>>)>>)>>)>>),
    N("event", <<N("TimeSpline", <<T("value", <<"7">>)>>)>>),
    N("event", <<T("GUID", <<"e","2">>),
                 N("TimeSpline", <<T("interpolation", <<"x">>)>>)>>),
    N("texgen", <<T("GUID", <<"g","1">>), T("Name", <<"F","i","r","e">>)>>),
    N("texgen", <<N("GUID", <<>>), T("Name", <<"I","c","e">>)>>),
    N("texgen", <<T("GUID", <<"g","3">>)>>),
    N("texgen", <<T("GUID", <<"g","4">>), T("Name", <<"F","o","g">>),
                  N("Parameter", <<T("Scope", <<"x">>)>>)>>),
    N("project", <<>>) }

Float4Main ==
  <<"f","l","o","a","t","4"," ","m","a","i","n","(",")","{",
    "r","e","t","u","r","n"," ","0",";","}">>

\* the container of one render technique, and nothing else
GlowOnly ==
  N("rendertechnique", <<T("GUID", <<"g","1">>), T("Name", Glow), T("Type", <<"0">>),
                         N("Pass", <<T("Name", <<"M","a","i","n">>),
                                     T("Code", Float4Main)>>)>>)

\* records with parent references, splines, operators and lines of source
FieldChildren ==
  { GlowOnly,
    N("model", <<T("GUID", <<"d","1">>), T("Name", <<"S","h","i","p">>),
                 N("Object", <<T("GUID", <<"b","0">>), T("Name", <<"H","u","l","l">>)>>),
                 N("Object", <<T("GUID", <<"b","1">>), T("Name", <<"F","i","n">>),
                               A("parentguid", << <<"value", NoParent>> >>, <<>>),
                               A("parentguid", << <<"value", <<"b","9">> >> >>, <<>>),
                               A("parentguid", <<>>, <<>>),
                               A("parentguid", << <<"value", <<>> >> >>, <<>>),
                               A("parentguid", << <<"value", <<"b","0">> >> >>, <<>>),
                               A("parentguid", << <<"value", NoParent>> >>, <<>>),
                               A("parentguid", << <<"value", <<"b","9">> >> >>, <<>>),
                               T("clonedobject", <<"b","0">>)>>)>>),
    N("scene", <<T("GUID", <<"s","1">>), T("Name", <<"O","p","e","n","i","n","g">>),
                 N("Clip", <<T("GUID", <<"c","1">>), T("Name", <<"I","n","t","r","o">>)>>),
                 N("Object", <<T("GUID", <<"o","1">>),
                   A("clipdata", << <<"targetclip", <<"c","1">> >> >>,
                     <<N("clipspline", <<N("spline", <<T("value", <<"1">>),
                                                       T("value", <<"2">>)>>)>>),
                       N("clipspline", <<N("spline", <<N("key", <<T("time", <<"3">>),
                                                                  T("value", <<"4">>)>>)>>)>>)>>),
                   A("clipdata", << <<"targetclip", X9>> >>,
                     <<N("clipspline", <<>>),
                       N("clipspline", <<N("spline", <<>>)>>)>>)>>)>>),
    N("event", <<T("GUID", <<"e","1">>), T("EndFrame", <<"9">>),
                 N("TimeSpline", <<T("value", <<"5">>),
                                   N("key", <<T("time", <<"1">>), T("value", <<"6">>)>>),
                                   T("value", <<"5">>),
                                   N("key", <<T("time", <<"1">>), T("value", <<"6">>)>>),
                                   T("value", <<"7">>)>>)>>),
    N("texturepage", <<T("GUID", <<"p","1">>), T("Name", <<"T","e","x">>),
                       N("Operator", <<T("GUID", <<"o","1">>), T("Filter", <<"g","3">>)>>),
                       N("Operator", <<T("GUID", <<"o","2">>), T("Filter", X9)>>),
                       N("Operator", <<T("GUID", <<"o","3">>)>>)>>),
    N("texgen", <<T("GUID", <<"g","3">>), T("Name", <<"F","o","g">>),
                  T("Code", <<"a","\n","b","\n","c">>)>>) }

Opening == <<"O","p","e","n","i","n","g">>

\* a technique of two passes with parameters of the scopes 0, 1, 2, 3 and -1
Scopes ==
  N("rendertechnique",
    <<T("GUID", <<"k","1">>), T("Name", <<"S","c","o","p","e","s">>),
      N("Pass", <<T("Name", <<"A">>), T("Code", <<"x">>),
                  N("Parameter", <<T("Name", <<"p","0">>), T("Scope", <<"0">>)>>),
                  N("Parameter", <<T("Name", <<"p","1">>), T("Scope", <<"1">>)>>),
                  N("Parameter", <<T("Name", <<"p","2">>), T("Scope", <<"2">>)>>),
                  N("Parameter", <<T("Name", <<"p","3">>), T("Scope", <<"3">>)>>)>>),
      N("Pass", <<T("Name", <<"B">>),
                  N("Parameter", <<T("Name", <<"n","1">>), T("Scope", <<"-","1">>)>>)>>)>>)

\* a technique with a parameter of the scope -4
Deep ==
  N("rendertechnique",
    <<T("GUID", <<"k","2">>), T("Name", <<"D","e","e","p">>),
      N("Pass", <<T("Name", <<"A">>), T("Code", <<"x">>),
                  N("Parameter", <<T("Name", <<"n","4">>), T("Scope", <<"-","4">>)>>)>>)>>)

\* two scenes of one identity with a clip of one identity each, an event
\* that refers to both, techniques with scopes of every sign, a record with
\* fields missing and a record with a field that is not a number
MainChildren ==
  { N("scene", <<T("GUID", <<"s","1">>), T("Name", Opening),
                 N("Clip", <<T("GUID", <<"c","1">>), T("Name", <<"I","n","t","r","o">>)>>)>>),
    N("scene", <<T("GUID", <<"s","1">>), T("Name", <<"E","n","d">>),
                 N("Clip", <<T("GUID", <<"c","1">>), T("Name", <<"O","u","t","r","o">>)>>)>>),
    N("event", <<T("GUID", <<"e","1">>), T("EndFrame", <<"9">>),
                 T("scene", <<"s","1">>), T("clip", <<"c","1">>)>>),
    Scopes,
    Deep,
    N("material", <<>>),
    N("texturepage", <<T("GUID", <<"p","2">>),
                       N("Operator", <<T("x1", <<"a","b","c">>)>>)>>) }

\* the lines of a markdown file: a tool name; a library linked and then not;
\* a file with a line, a tool in another case and an ambiguous library
\* between backquotes; a fence; a file linked and a file with a line range;
\* an ambiguous library and a tool in inline code and outside
MarkdownLines ==
  { <<"u","s","e"," ","f","f","m","p","e","g">>,
    <<"[","w","g","p","u","]","(","w",".","i","o",")"," ","w","g","p","u">>,
    <<"U+0060","a",".","p","y",":","7","U+0060"," ","F","F","m","p","e","g"," ","U+0060","i","m","a","g","e","U+0060">>,
    <<"U+0060","U+0060","U+0060">>,
    <<"[","U+0060","b",".","r","s","U+0060","]","(","x",")"," ","U+0060","b",".","r","s",":","2","-","5","U+0060">>,
    <<"i","m","a","g","e"," ","U+0060","f","f","m","p","e","g","U+0060"," ","f","f","m","p","e","g">> }

\* the longest markdown file, in lines
MaxLines == 2

\* a file of the notes of a framework and a file of no framework
MarkdownPaths == { <<"d","r","a","w","b","o","t","/","a",".","m","d">>, <<"a",".","m","d">> }

\* the characters of the arguments of sanitize_filename: a capital letter,
\* a small letter, a space, the brackets, a hyphen, a punctuation mark,
\* the dotted capital I
NameChars == {"A", "b", " ", "[", "]", "-", "!", "U+0130"}

FireRed == <<"F","i","r","e"," ","[","R","e","d","]">>

InitWith(containers) ==
  /\ root \in containers
  /\ shaders_only \in BOOLEAN
  /\ pc = "parse"
  /\ pos = 1
  /\ texgens = <<>> /\ techniques = <<>> /\ texture_pages = <<>>
  /\ materials = <<>> /\ models = <<>> /\ scenes = <<>> /\ events = <<>>
  /\ render_targets = <<>> /\ render_layers = <<>>
  /\ guid_maps = <<>>
  /\ dirs = {} /\ files = <<>> /\ writes = <<>>
  /\ arg = <<>> /\ rets = <<>>
  /\ apx_file = "ok" /\ list_only = FALSE
  /\ exit_code = <<>> /\ stderr = <<>> /\ stdout = <<>>
  /\ runs = 1 /\ previous = <<>>
  /\ md_path = <<>> /\ md_text = <<>> /\ calls = <<>>

Init == InitWith(SeqsUpTo(ExportChildren, MaxChildren))

InitDecode == InitWith(SeqsUpTo(DecodeChildren, MaxChildren))

\* a process at the start of main: the input is missing, is not XML, or is a
\* container; any combination of the flags
InitMain ==
  /\ apx_file \in {"missing", "malformed", "ok"}
  /\ root \in (IF apx_file = "ok" THEN SeqsUpTo(MainChildren, MaxChildren) ELSE {<<>>})
  /\ shaders_only \in BOOLEAN
  /\ list_only \in BOOLEAN
  /\ pc = "main"
  /\ pos = 1
  /\ texgens = <<>> /\ techniques = <<>> /\ texture_pages = <<>>
  /\ materials = <<>> /\ models = <<>> /\ scenes = <<>> /\ events = <<>>
  /\ render_targets = <<>> /\ render_layers = <<>>
  /\ guid_maps = <<>>
  /\ dirs = {} /\ files = <<>> /\ writes = <<>>
  /\ arg = <<>> /\ rets = <<>>
  /\ exit_code = <<>> /\ stderr = <<>> /\ stdout = <<>>
  /\ runs = 1 /\ previous = <<>>
  /\ md_path = <<>> /\ md_text = <<>> /\ calls = <<>>

\* a markdown file that the linker is given
InitLinker ==
  /\ pc = "linker"
  /\ md_path \in MarkdownPaths
  /\ md_text \in {join(ls) : ls \in SeqsUpTo(MarkdownLines, MaxLines)}
  /\ calls = <<>>
  /\ root = <<>> /\ shaders_only = FALSE
  /\ pos = 1
  /\ texgens = <<>> /\ techniques = <<>> /\ texture_pages = <<>>
  /\ materials = <<>> /\ models = <<>> /\ scenes = <<>> /\ events = <<>>
  /\ render_targets = <<>> /\ render_layers = <<>>
  /\ guid_maps = <<>>
  /\ dirs = {} /\ files = <<>> /\ writes = <<>>
  /\ arg = <<>> /\ rets = <<>>
  /\ apx_file = "ok" /\ list_only = FALSE
  /\ exit_code = <<>> /\ stderr = <<>> /\ stdout = <<>>
  /\ runs = 1 /\ previous = <<>>

InitSlug ==
  /\ arg \in SeqsUpTo(NameChars, MaxNameLen) \cup {FireRed}
  /\ rets = <<>>
  /\ pc = "slug"
  /\ root = <<>> /\ shaders_only = FALSE /\ pos = 1
  /\ texgens = <<>> /\ techniques = <<>> /\ texture_pages = <<>>
  /\ materials = <<>> /\ models = <<>> /\ scenes = <<>> /\ events = <<>>
  /\ render_targets = <<>> /\ render_layers = <<>>
  /\ guid_maps = <<>>
  /\ dirs = {} /\ files = <<>> /\ writes = <<>>
  /\ apx_file = "ok" /\ list_only = FALSE
  /\ exit_code = <<>> /\ stderr = <<>> /\ stdout = <<>>
  /\ runs = 1 /\ previous = <<>>
  /\ md_path = <<>> /\ md_text = <<>> /\ calls = <<>>

InitFields == InitWith(SeqsUpTo(FieldChildren, MaxChildren))

Next == ParseChild \/ ParseDone \/ Extract

NextSlug == Sanitize

NextLinker == ProcessFile

NextMain == Main \/ ParseChild \/ ParseDone \/ ListContents \/ Extract \/ Exit \/ Rerun

Spec == Init /\ [][Next]_vars

SpecDecode == InitDecode /\ [][Next]_vars

SpecSlug == InitSlug /\ [][NextSlug]_vars

SpecFields == InitFields /\ [][Next]_vars

SpecMain == InitMain /\ [][NextMain]_vars

SpecLinker == InitLinker /\ [][NextLinker]_vars

(***************************************************************************)
(* Properties.                                                             *)
(***************************************************************************)
\* the root children bearing a tag, in source order
Tagged(tag) == findall(N("root", root), tag)

\* the constructor has returned: _parse went through every child
Decoded == pc \in {"parsed", "extracted", "IndexError"}

\* C1: after _parse, the collection of each of the eight recognized tags is
\* the sequence of the root children bearing that tag, in source order: as
\* long as that sequence, its i-th entity decoded from the i-th such child.
C1_CollectionsFollowSource ==
  Decoded =>
    /\ techniques = Map(parse_render_technique, Tagged("rendertechnique"))
    /\ render_targets = Map(parse_render_target, Tagged("rendertarget"))
    /\ render_layers = Map(parse_render_layer, Tagged("renderlayer"))
    /\ texture_pages = Map(parse_texture_page, Tagged("texturepage"))
    /\ materials = Map(parse_material, Tagged("material"))
    /\ models = Map(parse_model, Tagged("model"))
    /\ scenes = Map(parse_scene, Tagged("scene"))
    /\ events = Map(parse_timeline_event, Tagged("event"))

\* two different children of one tag around a child of another tag are decoded
C1_Witness ==
  /\ pc = "parsed"
  /\ Len(root) = 3
  /\ root[1].tag = "rendertarget" /\ root[3].tag = "rendertarget"
  /\ root[2].tag = "event"
  /\ Len(render_targets) = 2
  /\ render_targets[1] # render_targets[2]

\* C2: decoding never raises on a malformed child.
C2_NeverRaises == pc # "ValueError"

\* every sub-element of pairs that elem lacks has the default in rec
Holds(elem, rec, pairs, default) ==
  \A k \in DOMAIN pairs : ~has(elem, pairs[k][1]) => rec[pairs[k][2]] = default

Identity == << <<"GUID", "guid">>, <<"Name", "name">> >>

SplineDefaults(e, sp) ==
  /\ Holds(e, sp, << <<"interpolation", "interpolation">>, <<"loop", "loop">>,
                     <<"waveform", "waveform">>,
                     <<"multiplicativewaveform", "multiplicative_waveform">>,
                     <<"wfamplitude", "wf_amplitude">>, <<"wffrequency", "wf_frequency">>,
                     <<"wfrandseed", "wf_randseed">> >>, 0)
  /\ \A k \in DOMAIN sp.keys :
       Holds(findall(e, "key")[k], sp.keys[k], << <<"time", "time">> >>, 0)

ParameterDefaults(e, par) ==
  /\ Holds(e, par, Identity, <<>>)
  /\ Holds(e, par, << <<"Scope", "scope">>, <<"Type", "param_type">> >>, 0)

ParametersDefaults(e, pars) ==
  \A k \in DOMAIN pars : ParameterDefaults(findall(e, "Parameter")[k], pars[k])

\* the unrecognized children that _parse keeps as texture generators
KeptAsTexgen(elem) == elem.tag \notin Recognized /\ texgen_shape(elem)

\* the defaults of the decoded fields, for a default of a page's resolution
\* and a default of a pass's name
Defaults(res, pass_name) ==
  /\ \A i \in DOMAIN texgens :
       LET e == SelectSeq(root, KeptAsTexgen)[i]
       IN  /\ Holds(e, texgens[i], << <<"Code", "code">> >>, <<>>)
           /\ ParametersDefaults(e, texgens[i].parameters)
  /\ \A i \in DOMAIN techniques :
       LET e == Tagged("rendertechnique")[i]
       IN  /\ Holds(e, techniques[i], Identity, <<>>)
           /\ Holds(e, techniques[i], << <<"Type", "technique_type">> >>, 0)
           /\ \A j \in DOMAIN techniques[i].passes :
                LET pe == findall(e, "Pass")[j]
                IN  /\ Holds(pe, techniques[i].passes[j], << <<"Name", "name">> >>, pass_name)
                    /\ Holds(pe, techniques[i].passes[j], << <<"Code", "code">> >>, <<>>)
                    /\ ParametersDefaults(pe, techniques[i].passes[j].parameters)
  /\ \A i \in DOMAIN texture_pages :
       LET e == Tagged("texturepage")[i]
       IN  /\ Holds(e, texture_pages[i], Identity, <<>>)
           /\ Holds(e, texture_pages[i], << <<"xres", "xres">>, <<"yres", "yres">> >>, res)
           /\ \A j \in DOMAIN texture_pages[i].operators :
                LET oe == findall(e, "Operator")[j]
                IN  /\ Holds(oe, texture_pages[i].operators[j],
                             << <<"GUID", "guid">>, <<"Filter", "filter_guid">> >>, <<>>)
                    /\ Holds(oe, texture_pages[i].operators[j],
                             << <<"x1", "x1">>, <<"y1", "y1">>, <<"x2", "x2">>, <<"y2", "y2">>,
                                <<"Resolution", "resolution">>, <<"Seed", "seed">> >>, 0)
  /\ \A i \in DOMAIN materials :
       Holds(Tagged("material")[i], materials[i],
             Identity \o << <<"Tech", "technique_guid">> >>, <<>>)
  /\ \A i \in DOMAIN models :
       LET e == Tagged("model")[i]
       IN  /\ Holds(e, models[i], Identity, <<>>)
           /\ \A j \in DOMAIN models[i].objects :
                LET oe == findall(e, "Object")[j]
                IN  /\ Holds(oe, models[i].objects[j], Identity, <<>>)
                    /\ \A k \in DOMAIN models[i].objects[j].filters :
                         Holds(findall(oe, "Filter")[k], models[i].objects[j].filters[k],
                               << <<"Name", "name">> >>, <<>>)
  /\ \A i \in DOMAIN scenes :
       LET e == Tagged("scene")[i]
       IN  /\ Holds(e, scenes[i], Identity, <<>>)
           /\ \A j \in DOMAIN scenes[i].clips :
                Holds(findall(e, "Clip")[j], scenes[i].clips[j], Identity, <<>>)
           /\ \A j \in DOMAIN scenes[i].objects :
                LET oe == findall(e, "Object")[j]
                IN  /\ Holds(oe, scenes[i].objects[j], Identity, <<>>)
                    /\ \A k \in DOMAIN scenes[i].objects[j].clip_data :
                         LET ce == findall(oe, "clipdata")[k]
                             cd == scenes[i].objects[j].clip_data[k]
                         IN  /\ Holds(ce, cd, << <<"randseed", "randseed">>,
                                                 <<"turbulencefreq", "turbulence_freq">> >>, 0)
                             /\ \A m \in DOMAIN cd.splines :
                                  cd.splines[m].spline # <<>> =>
                                    SplineDefaults(find(findall(ce, "clipspline")[m], "spline"),
                                                   cd.splines[m].spline[1])
  /\ \A i \in DOMAIN events :
       LET e == Tagged("event")[i]
       IN  /\ Holds(e, events[i], Identity \o << <<"TargetRT", "target_rt">> >>, <<>>)
           /\ Holds(e, events[i], << <<"Type", "event_type">>, <<"Pass", "pass_index">>,
                                     <<"StartFrame", "start_frame">>,
                                     <<"EndFrame", "end_frame">> >>, 0)
           /\ events[i].time_spline # <<>> =>
                SplineDefaults(find(e, "TimeSpline"), events[i].time_spline[1])
  /\ \A i \in DOMAIN render_targets :
       LET e == Tagged("rendertarget")[i]
       IN  /\ Holds(e, render_targets[i], Identity, <<>>)
           /\ Holds(e, render_targets[i],
                    << <<"ResolutionDescriptor", "resolution">>,
                       <<"PixelFormat", "pixel_format">>,
                       <<"ZResolution", "z_resolution">> >>, 0)
  /\ \A i \in DOMAIN render_layers :
       Holds(Tagged("renderlayer")[i], render_layers[i], Identity, <<>>)

\* C3 as stated: every absent numeric field decodes to 0 and every absent
\* text field to the empty string, a texture page's x/y resolution and a
\* shader pass's name included.
C3_AbsentIsZeroOrEmpty == Decoded => Defaults(0, <<>>)

OptionalParameter ==
  << <<"DefaultValue", "default_value">>, <<"Value", "value">>,
     <<"TextureGUID", "texture_guid">> >>

OptionalParameters(e, pars) ==
  \A k \in DOMAIN pars : Holds(findall(e, "Parameter")[k], pars[k], OptionalParameter, None)

\* the optional fields whose sub-element is absent are None
OptionalAbsent ==
  /\ \A i \in DOMAIN texgens :
       OptionalParameters(SelectSeq(root, KeptAsTexgen)[i], texgens[i].parameters)
  /\ \A i \in DOMAIN techniques :
       LET e == Tagged("rendertechnique")[i]
       IN  /\ Holds(e, techniques[i], << <<"TargetLayer", "target_layer">> >>, None)
           /\ \A j \in DOMAIN techniques[i].passes :
                OptionalParameters(findall(e, "Pass")[j], techniques[i].passes[j].parameters)
  /\ \A i \in DOMAIN models :
       \A j \in DOMAIN models[i].objects :
         LET oe == findall(Tagged("model")[i], "Object")[j]
         IN  /\ Holds(oe, models[i].objects[j], << <<"clonedobject", "cloned_object">> >>, None)
             /\ Holds(oe, models[i].objects[j],
                      << <<"floatparameter", "float_parameter">> >>, <<>>)
  /\ \A i \in DOMAIN events :
       Holds(Tagged("event")[i], events[i],
             << <<"scene", "scene_guid">>, <<"clip", "clip_guid">>,
                <<"camera", "camera_guid">>, <<"subscenetarget", "subscene_target">> >>, None)

\* C3, amended: an absent numeric field decodes to 0, but a texture page's
\* x/y resolution to 8; an absent text field decodes to the empty string,
\* but a shader pass's name to "Unnamed Pass"; the optional fields (a
\* parameter's default value, value and texture reference, a model
\* object's float parameter, the optional references) decode to None.
C3_AbsentIsDefault == Decoded => Defaults(8, UnnamedPass) /\ OptionalAbsent

\* a page without xres and a pass without Name are decoded
C3_Witness ==
  /\ pc = "parsed"
  /\ \E i \in DOMAIN texture_pages :
       /\ ~has(Tagged("texturepage")[i], "xres")
       /\ texture_pages[i].xres = 8
  /\ \E i \in DOMAIN techniques :
       /\ ~has(find(Tagged("rendertechnique")[i], "Pass"), "Name")
       /\ techniques[i].passes[1].name = UnnamedPass
  /\ \E i \in DOMAIN render_targets :
       /\ ~has(Tagged("rendertarget")[i], "ZResolution")
       /\ render_targets[i].z_resolution = 0

\* the element has a sub-element of the tag with a text
NonEmptySub(elem, tag) ==
  \E k \in DOMAIN elem.children :
    elem.children[k].tag = tag /\ Truthy(elem.children[k].text)

TexgenLike(elem) ==
  elem.tag \notin Recognized /\ NonEmptySub(elem, "GUID") /\ NonEmptySub(elem, "Name")

Dropped(elem) == elem.tag \notin Recognized /\ ~TexgenLike(elem)

NotDropped(elem) == ~Dropped(elem)

\* C4: a root child with an unrecognized tag becomes a texture generator if
\* and only if it has a non-empty GUID and a non-empty Name sub-element;
\* otherwise it is dropped: nothing is added to any of the nine collections
\* and no error is raised.
C4_UnrecognizedTags ==
  LET done == SubSeq(root, 1, pos - 1)
      kept == SelectSeq(done, TexgenLike)
  IN  /\ Len(texgens) = Len(kept)
      /\ \A i \in DOMAIN texgens :
           /\ texgens[i].guid = find(kept[i], "GUID").text
           /\ texgens[i].name = find(kept[i], "Name").text
      /\ Len(texgens) + Len(techniques) + Len(texture_pages) + Len(materials)
           + Len(models) + Len(scenes) + Len(events) + Len(render_targets)
           + Len(render_layers) = Len(SelectSeq(done, NotDropped))
      /\ pc = "ValueError" => ~Dropped(root[pos])

\* an unrecognized child was dropped after another became a texture generator
C4_Witness ==
  /\ pc = "parsed"
  /\ Len(root) = 3
  /\ TexgenLike(root[1])
  /\ Dropped(root[2]) /\ has(root[2], "GUID")
  /\ Dropped(root[3]) /\ has(root[3], "Name")
  /\ Len(texgens) = 1

\* a full run of extract is over
Exported == pc = "extracted" /\ ~shaders_only

Guids(entities) == {entities[i].guid : i \in DOMAIN entities}

ClipGuids == UNION {Guids(scenes[i].clips) : i \in DOMAIN scenes}

\* no later entity of the collection is written to the path of the i-th
LastWriter(entities, i) ==
  \A j \in (i + 1)..Len(entities) :
    sanitize_filename(entities[j].name) # sanitize_filename(entities[i].name)

\* C5: a material's technique reference, an operator's filter reference, an
\* event's target render-target, scene or clip reference whose identity is
\* not a key of the map of its kind is annotated with exactly "Unknown".
C5_DanglingIsUnknown ==
  Exported =>
    /\ \A i \in DOMAIN materials :
         materials[i].technique_guid \notin Guids(techniques) =>
           files[<<".", MATERIALS_JSON>>][i].technique_name = Unknown
    /\ \A i \in DOMAIN texture_pages :
         LastWriter(texture_pages, i) =>
           \A k \in DOMAIN texture_pages[i].operators :
             texture_pages[i].operators[k].filter_guid \notin Guids(texgens) =>
               files[<<"textures", sanitize_filename(texture_pages[i].name) \o JSON>>]
                 .operators[k].filter_name = Unknown
    /\ \A i \in DOMAIN events :
         LET doc == files[<<".", TIMELINE_JSON>>][i]
         IN  /\ events[i].target_rt \notin Guids(render_targets) =>
                  doc.target_rt_name = Unknown
             /\ Truthy(events[i].scene_guid) /\ events[i].scene_guid \notin Guids(scenes) =>
                  "scene_name" \in DOMAIN doc /\ doc.scene_name = Unknown
             /\ Truthy(events[i].clip_guid) /\ events[i].clip_guid \notin ClipGuids =>
                  "clip_name" \in DOMAIN doc /\ doc.clip_name = Unknown

\* a material, an operator and an event whose references all dangle are exported
C5_Witness ==
  /\ Exported
  /\ materials # <<>> /\ events # <<>> /\ texture_pages # <<>>
  /\ files[<<".", MATERIALS_JSON>>][1].technique_name = Unknown
  /\ files[<<".", TIMELINE_JSON>>][1].target_rt_name = Unknown
  /\ files[<<".", TIMELINE_JSON>>][1].scene_name = Unknown
  /\ files[<<".", TIMELINE_JSON>>][1].clip_name = Unknown
  /\ files[<<"textures", <<"t","e","x">> \o JSON>>].operators[1].filter_name = Unknown

\* p is the first 16 characters of s
First16(p, s) ==
  /\ Len(p) = (IF Len(s) < 16 THEN Len(s) ELSE 16)
  /\ \A k \in DOMAIN p : p[k] = s[k]

\* the name of the last entity with the identity
NameOf(entities, guid) ==
  entities[CHOOSE i \in DOMAIN entities :
             /\ entities[i].guid = guid
             /\ \A j \in (i + 1)..Len(entities) : entities[j].guid # guid].name

\* C6: in render_layers.json a layer's render_target_names has the length and
\* the order of its render_targets; an entry whose identity is not in the
\* render-target map is the first 16 characters of the identity, not "Unknown".
C6_LayerTargetNames ==
  Exported =>
    \A i \in DOMAIN render_layers :
      LET doc == files[<<".", RENDER_LAYERS_JSON>>][i]
      IN  /\ doc.render_targets = render_layers[i].render_targets
          /\ Len(doc.render_target_names) = Len(doc.render_targets)
          /\ \A k \in DOMAIN doc.render_targets :
               IF doc.render_targets[k] \in Guids(render_targets)
               THEN doc.render_target_names[k] = NameOf(render_targets, doc.render_targets[k])
               ELSE /\ First16(doc.render_target_names[k], doc.render_targets[k])
                    /\ doc.render_target_names[k] # Unknown

\* a layer with a known target and an unknown one of more than 16 characters
C6_Witness ==
  /\ Exported
  /\ render_layers # <<>>
  /\ \E k \in DOMAIN render_layers[1].render_targets :
       /\ render_layers[1].render_targets[k] \notin Guids(render_targets)
       /\ Len(render_layers[1].render_targets[k]) > 16
       /\ Len(files[<<".", RENDER_LAYERS_JSON>>][1].render_target_names[k]) = 16
  /\ \E k \in DOMAIN render_layers[1].render_targets :
       /\ render_layers[1].render_targets[k] \in Guids(render_targets)
       /\ files[<<".", RENDER_LAYERS_JSON>>][1].render_target_names[k] = <<"M","a","i","n">>

\* the techniques whose target layer is given and not in the render-layer map
DanglingLayer(tech) ==
  Truthy(tech.target_layer) /\ tech.target_layer \notin Guids(render_layers)

\* the file of the i-th technique has a target layer line, its name fits
TargetLayerLine(i, Fits(_, _)) ==
  LET content == files[<<MATERIALS_DIR, sanitize_filename(techniques[i].name) \o HLSL>>]
  IN  \E k \in DOMAIN content :
        /\ content[k].tag = "// Target Layer: {layer_name}"
        /\ Fits(content[k].text, techniques[i].target_layer)

IsUnknown(name, guid) == name = Unknown

\* C7 as stated: a technique whose target layer is given but not in the
\* render-layer map has the target-layer name "Unknown" in its file's header.
C7_TechniqueLayerUnknown ==
  pc = "extracted" =>
    \A i \in DOMAIN techniques :
      has_code(techniques[i]) /\ LastWriter(techniques, i) /\ DanglingLayer(techniques[i])
        => TargetLayerLine(i, IsUnknown)

\* C7, amended: such a technique has the first 16 characters of the target
\* layer's identity as the target-layer name in its file's header: the
\* truncated identity is the fallback of the technique header too.
C7_TechniqueLayerPrefix ==
  pc = "extracted" =>
    \A i \in DOMAIN techniques :
      has_code(techniques[i]) /\ LastWriter(techniques, i) /\ DanglingLayer(techniques[i])
        => TargetLayerLine(i, First16)

\* a technique is exported whose target layer, longer than 16 characters, dangles
C7_Witness ==
  /\ pc = "extracted"
  /\ techniques # <<>>
  /\ has_code(techniques[1]) /\ DanglingLayer(techniques[1])
  /\ Len(techniques[1].target_layer) > 16
  /\ <<MATERIALS_DIR, <<"g","l","o","w">> \o HLSL>> \in DOMAIN files

\* extract has built the maps
MapsBuilt == pc \in {"extracted", "IndexError"}

DisplayName(scene, clip) == scene.name \o <<"/">> \o clip.name

\* a later clip, of the same scene or of a later one, has the identity
Shadowed(i, j) ==
  \/ \E k \in (j + 1)..Len(scenes[i].clips) : scenes[i].clips[k].guid = scenes[i].clips[j].guid
  \/ \E h \in (i + 1)..Len(scenes) :
       \E k \in DOMAIN scenes[h].clips : scenes[h].clips[k].guid = scenes[i].clips[j].guid

\* C8 as stated: the clip map has a key for the identity of every clip of
\* every scene, and the entry of a clip named n of a scene named s is "s/n".
C8_EveryClipEntry ==
  MapsBuilt =>
    \A i \in DOMAIN scenes :
      \A j \in DOMAIN scenes[i].clips :
        /\ scenes[i].clips[j].guid \in DOMAIN guid_maps.clip
        /\ guid_maps.clip[scenes[i].clips[j].guid] = DisplayName(scenes[i], scenes[i].clips[j])

\* C8, amended: the clip map has a key for the identity of every clip of
\* every scene, and the entry is "s/n" for the clip named n of the scene
\* named s that is the last one, in source order, with that identity.
C8_LastClipEntry ==
  MapsBuilt =>
    /\ DOMAIN guid_maps.clip = ClipGuids
    /\ \A i \in DOMAIN scenes :
         \A j \in DOMAIN scenes[i].clips :
           ~Shadowed(i, j) =>
             guid_maps.clip[scenes[i].clips[j].guid]
               = DisplayName(scenes[i], scenes[i].clips[j])

\* the clip c1 "Intro" of the scene "Opening", alone and then shadowed
C8_Witness ==
  /\ MapsBuilt
  /\ Len(scenes) = 2
  /\ scenes[1].name = <<"O","p","e","n","i","n","g">>
  /\ scenes[1].clips[1] = [guid |-> <<"c","1">>, name |-> <<"I","n","t","r","o">>]
  /\ Shadowed(1, 1) /\ ~Shadowed(1, 2)
  /\ guid_maps.clip[<<"c","1">>] = <<"E","n","d","/","O","u","t","r","o">>
  /\ guid_maps.clip[<<"c","2">>] = <<"O","p","e","n","i","n","g","/","L","o","o","p">>

\* C9: sanitize_filename is total and idempotent: it returns a non-empty
\* string for every argument, "unnamed" for "", "fire-red" for "Fire [Red]",
\* and applied to what it returned it returns the same.
C9_SlugTotalIdempotent ==
  /\ \A k \in DOMAIN rets : rets[k] # <<>>
  /\ Len(rets) >= 1 /\ arg = <<>> => rets[1] = <<"u","n","n","a","m","e","d">>
  /\ Len(rets) >= 1 /\ arg = FireRed => rets[1] = <<"f","i","r","e","-","r","e","d">>
  /\ Len(rets) = 2 => rets[2] = rets[1]

FilesUnder(dir) == Cardinality({path \in DOMAIN files : path[1] = dir})

HasSource(tg) == tg.code # <<>>

\* C10: in a run every output path is written once and every exported entity
\* has a file of its own: the files under shaders/texgen, shaders/materials,
\* textures, models, scenes are as many as the texture generators with
\* source, the techniques with source, the pages, the models, the scenes.
C10_OneFilePerEntity ==
  Exported =>
    /\ \A i, j \in DOMAIN writes : i # j => writes[i] # writes[j]
    /\ FilesUnder(TEXGEN_DIR) = Len(SelectSeq(texgens, HasSource))
    /\ FilesUnder(MATERIALS_DIR) = Len(SelectSeq(techniques, has_code))
    /\ FilesUnder("textures") = Len(texture_pages)
    /\ FilesUnder("models") = Len(models)
    /\ FilesUnder("scenes") = Len(scenes)

Documents ==
  {TIMELINE_JSON, MATERIALS_JSON, RENDER_TARGETS_JSON, RENDER_LAYERS_JSON, INDEX_MD}

\* C11: in shaders-only mode every file written is under shaders/texgen or
\* shaders/materials: there is no textures, models or scenes directory, no
\* timeline.json, materials.json, render_targets.json, render_layers.json
\* and no index.md, whatever was decoded.
C11_ShadersOnly ==
  shaders_only =>
    /\ \A path \in DOMAIN files : path[1] \in {TEXGEN_DIR, MATERIALS_DIR}
    /\ \A k \in DOMAIN writes : writes[k][1] \in {TEXGEN_DIR, MATERIALS_DIR}
    /\ dirs \cap {"textures", "models", "scenes"} = {}
    /\ \A name \in Documents : <<".", name>> \notin DOMAIN files

\* a shaders-only run wrote a source file for a container that also has a
\* texture page and a scene
C11_Witness ==
  /\ shaders_only
  /\ pc = "extracted"
  /\ texture_pages # <<>> /\ scenes # <<>>
  /\ DOMAIN files = {<<TEXGEN_DIR, <<"f","i","r","e">> \o HLSL>>}

GlowPath == <<MATERIALS_DIR, <<"g","l","o","w">> \o HLSL>>

\* the lines of the file of Glow, in order: the header with the name, the
\* type and the identity, a banner, the pass, the source as it is
GlowContent ==
  LET content == files[GlowPath]
  IN  \E k \in [1..6 -> DOMAIN content] :
        /\ \A h \in 1..5 : k[h] < k[h + 1]
        /\ content[k[1]].tag = "// Render Technique: {name}" /\ content[k[1]].text = Glow
        /\ content[k[2]].tag = "// Type: {type_name}"
        /\ content[k[2]].label = Label("Material")
        /\ content[k[3]].tag = "// GUID: {guid}" /\ content[k[3]].text = <<"g","1">>
        /\ content[k[4]] = Banner
        /\ content[k[5]].tag = "// Pass {i+1}: {name}" /\ content[k[5]].num = <<1>>
        /\ content[k[5]].text = <<"M","a","i","n">>
        /\ content[k[6]].tag = "{code}" /\ content[k[6]].text = Float4Main

\* C12 as stated: extracting the container of the one technique Glow
\* produces exactly the file shaders/materials/glow.hlsl, with the header,
\* the banner, "Pass 1: Main" and the source in order, and no materials.json.
C12_GlowOnlyFile ==
  pc = "extracted" /\ root = <<GlowOnly>> =>
    /\ DOMAIN files = {GlowPath}
    /\ GlowContent
    /\ <<".", MATERIALS_JSON>> \notin DOMAIN files

\* C12, amended: it produces exactly the file shaders/materials/glow.hlsl
\* and, unless the run is shaders-only, the index document index.md; the
\* content of glow.hlsl is as stated and there is no materials.json.
C12_GlowAndIndex ==
  pc = "extracted" /\ root = <<GlowOnly>> =>
    /\ DOMAIN files = {GlowPath} \cup (IF shaders_only THEN {} ELSE {<<".", INDEX_MD>>})
    /\ GlowContent
    /\ <<".", MATERIALS_JSON>> \notin DOMAIN files

\* the container of the one technique Glow went through a full run
C12_Witness ==
  /\ pc = "extracted" /\ ~shaders_only
  /\ root = <<GlowOnly>>
  /\ Len(files[GlowPath]) = 11
  /\ <<".", INDEX_MD>> \in DOMAIN files

\* the identities of the root children bearing a tag
SourceGuids(tag) == {findtext(Tagged(tag)[i], "GUID", <<>>) : i \in DOMAIN Tagged(tag)}

\* the identities of the clips of the scenes of the container
SourceClipGuids ==
  UNION {{findtext(findall(Tagged("scene")[i], "Clip")[j], "GUID", <<>>) :
            j \in DOMAIN findall(Tagged("scene")[i], "Clip")} : i \in DOMAIN Tagged("scene")}

\* the display name of the last clip, in source order, with the identity
ClipNameOf(guid) ==
  LET at == CHOOSE ij \in UNION {{<<i, j>> : j \in DOMAIN scenes[i].clips} :
                                   i \in DOMAIN scenes} :
              scenes[ij[1]].clips[ij[2]].guid = guid /\ ~Shadowed(ij[1], ij[2])
  IN  DisplayName(scenes[at[1]], scenes[at[1]].clips[at[2]])

\* C13: decode, resolve, export run in this order with a full barrier: the
\* maps are built only when every root child has been decoded, so they have
\* the identity of every entity of the container, and an event's scene or
\* clip reference resolves to the entity's display name wherever the entity
\* stands in the source, after the event included, never to "Unknown".
C13_ResolveAfterDecode ==
  MapsBuilt =>
    /\ pos > Len(root)
    /\ DOMAIN guid_maps.scene = SourceGuids("scene")
    /\ DOMAIN guid_maps.clip = SourceClipGuids
    /\ DOMAIN guid_maps.render_target = SourceGuids("rendertarget")
    /\ DOMAIN guid_maps.render_layer = SourceGuids("renderlayer")
    /\ DOMAIN guid_maps.technique = SourceGuids("rendertechnique")
    /\ DOMAIN guid_maps.material = SourceGuids("material")
    /\ DOMAIN guid_maps.model = SourceGuids("model")
    /\ Exported =>
         \A i \in DOMAIN events :
           LET doc == files[<<".", TIMELINE_JSON>>][i]
           IN  /\ events[i].scene_guid \in SourceGuids("scene") =>
                    doc.scene_name = NameOf(scenes, events[i].scene_guid)
               /\ events[i].clip_guid \in SourceClipGuids =>
                    doc.clip_name = ClipNameOf(events[i].clip_guid)

\* an event comes first, the scene and the clip it refers to after it
C13_Witness ==
  /\ Exported
  /\ Len(root) = 2
  /\ root[1].tag = "event" /\ root[2].tag = "scene"
  /\ events[1].scene_guid = scenes[1].guid
  /\ files[<<".", TIMELINE_JSON>>][1].scene_name = <<"O","p","e","n","i","n","g">>
  /\ files[<<".", TIMELINE_JSON>>][1].clip_name
       = <<"O","p","e","n","i","n","g","/","I","n","t","r","o">>

\* the reference of rec read from the sub-element tag of elem is None, not
\* the empty string nor a sentinel, when elem has no such sub-element
AbsentReference(elem, rec, tag, field) ==
  ~has(elem, tag) =>
    /\ rec[field] = None
    /\ rec[field] \notin {<<>>, Unknown, NoParent}

TextureReferences(elem, pars) ==
  \A k \in DOMAIN pars :
    AbsentReference(findall(elem, "Parameter")[k], pars[k], "TextureGUID", "texture_guid")

\* C14: a parameter's texture reference, a technique's target layer, a model
\* object's cloned-object reference and an event's scene, clip, camera and
\* subscene references are None after decoding when the sub-element is
\* absent from the record: not the empty string, not a sentinel.
C14_AbsentReferenceIsNone ==
  Decoded =>
    /\ \A i \in DOMAIN texgens :
         TextureReferences(SelectSeq(root, KeptAsTexgen)[i], texgens[i].parameters)
    /\ \A i \in DOMAIN techniques :
         LET e == Tagged("rendertechnique")[i]
         IN  /\ AbsentReference(e, techniques[i], "TargetLayer", "target_layer")
             /\ \A j \in DOMAIN techniques[i].passes :
                  TextureReferences(findall(e, "Pass")[j], techniques[i].passes[j].parameters)
    /\ \A i \in DOMAIN models :
         \A j \in DOMAIN models[i].objects :
           AbsentReference(findall(Tagged("model")[i], "Object")[j], models[i].objects[j],
                           "clonedobject", "cloned_object")
    /\ \A i \in DOMAIN events :
         /\ AbsentReference(Tagged("event")[i], events[i], "scene", "scene_guid")
         /\ AbsentReference(Tagged("event")[i], events[i], "clip", "clip_guid")
         /\ AbsentReference(Tagged("event")[i], events[i], "camera", "camera_guid")
         /\ AbsentReference(Tagged("event")[i], events[i], "subscenetarget", "subscene_target")

\* an event without references, a technique without target layer whose pass
\* has a parameter without texture, a model object without clone are decoded
C14_Witness ==
  /\ pc = "parsed"
  /\ \E i \in DOMAIN events :
       ~has(Tagged("event")[i], "scene") /\ events[i].scene_guid = None
  /\ \E i \in DOMAIN techniques :
       /\ ~has(Tagged("rendertechnique")[i], "TargetLayer")
       /\ techniques[i].target_layer = None
       /\ techniques[i].passes # <<>>
       /\ techniques[i].passes[1].parameters # <<>>
       /\ techniques[i].passes[1].parameters[1].texture_guid = None
  /\ \E i \in DOMAIN models :
       /\ models[i].objects # <<>>
       /\ models[i].objects[1].cloned_object = None

\* the values that stand for "no parent": the sentinel, no value, ''
NoParentValues == {NoParent, None, <<>>}

\* kept is what is left of the values of the parentguid elements pgs, in
\* their order, when those that stand for "no parent" are taken out
FilteredParents(kept, pgs) ==
  \E f \in [DOMAIN kept -> DOMAIN pgs] :
    /\ \A k, h \in DOMAIN kept : k < h => f[k] < f[h]
    /\ \A k \in DOMAIN kept : kept[k] = get(pgs[f[k]], "value", None)
    /\ \A h \in DOMAIN pgs :
         (\A k \in DOMAIN kept : f[k] # h) => get(pgs[h], "value", None) \in NoParentValues

\* C15: no decoded model object has the "no parent" sentinel among its
\* parent references: the parentguid elements whose value is the sentinel,
\* missing or empty are left out, the others are kept in source order.
C15_NoParentFiltered ==
  Decoded =>
    \A i \in DOMAIN models :
      \A j \in DOMAIN models[i].objects :
        LET kept == models[i].objects[j].parent_guids
        IN  /\ \A k \in DOMAIN kept : kept[k] \notin NoParentValues
            /\ FilteredParents(kept, findall(findall(Tagged("model")[i], "Object")[j],
                                             "parentguid"))

\* an object with seven parentguid elements, four of them for "no parent",
\* is decoded with the three others
C15_Witness ==
  /\ pc = "parsed"
  /\ models # <<>>
  /\ Len(findall(findall(Tagged("model")[1], "Object")[2], "parentguid")) = 7
  /\ models[1].objects[1].parent_guids = <<>>
  /\ models[1].objects[2].parent_guids = << <<"b","9">>, <<"b","0">>, <<"b","9">> >>

\* the places of the children of elem bearing the tag
Places(elem, tag) == {k \in DOMAIN elem.children : elem.children[k].tag = tag}

\* seq has one entry per child of elem bearing the tag, in the order of the
\* children, the entry of a child being what Fits tells
OnePerChild(seq, elem, tag, Fits(_, _)) ==
  /\ Len(seq) = Cardinality(Places(elem, tag))
  /\ \E f \in [DOMAIN seq -> Places(elem, tag)] :
       /\ \A k, h \in DOMAIN seq : k < h => f[k] < f[h]
       /\ \A k \in DOMAIN seq : Fits(seq[k], elem.children[f[k]])

IsValueOf(v, val_elem) == v = (IF Truthy(val_elem.text) THEN int(val_elem.text) ELSE 0)

IsKeyOf(key, key_elem) == OnePerChild(key.values, key_elem, "value", IsValueOf)

\* the static values and the keyframes of sp are those of elem, each in full
SplineOf(sp, elem) ==
  /\ OnePerChild(sp.values, elem, "value", IsValueOf)
  /\ OnePerChild(sp.keys, elem, "key", IsKeyOf)
  /\ Places(elem, "key") = {} => sp.keys = <<>>
  /\ Places(elem, "value") = {} => sp.values = <<>>

\* C16: parse_spline keeps the static values and the keyframes apart: the
\* values are the direct value children and the keys the key children, each
\* in full and in source order, nothing merged or dropped as a duplicate;
\* with value children only the keys are empty, with key children only the
\* values are empty, and a key's own values are in the key alone.
C16_ValuesAndKeysApart ==
  Decoded =>
    /\ \A i \in DOMAIN events :
         events[i].time_spline # <<>> =>
           SplineOf(events[i].time_spline[1], find(Tagged("event")[i], "TimeSpline"))
    /\ \A i \in DOMAIN scenes :
         \A j \in DOMAIN scenes[i].objects :
           \A k \in DOMAIN scenes[i].objects[j].clip_data :
             \A m \in DOMAIN scenes[i].objects[j].clip_data[k].splines :
               LET cs == scenes[i].objects[j].clip_data[k].splines[m]
                   ce == findall(findall(findall(Tagged("scene")[i], "Object")[j],
                                         "clipdata")[k], "clipspline")[m]
               IN  cs.spline # <<>> => SplineOf(cs.spline[1], find(ce, "spline"))

\* splines with values only, with keys only and with both are decoded
C16_Witness ==
  /\ pc = "parsed"
  /\ events # <<>> /\ scenes # <<>>
  /\ events[1].time_spline[1].values = <<5, 5, 7>>
  /\ Len(events[1].time_spline[1].keys) = 2
  /\ events[1].time_spline[1].keys[2].values = <<6>>
  /\ LET splines == scenes[1].objects[1].clip_data[1].splines
     IN  /\ splines[1].spline[1].values = <<1, 2>> /\ splines[1].spline[1].keys = <<>>
         /\ splines[2].spline[1].values = <<>> /\ Len(splines[2].spline[1].keys) = 1

\* C17: the index document of a full run has the aggregate counters of the
\* run: the total of the shader lines of all source files, the total of
\* the animation splines of all clip data, the total of the operators of
\* all texture pages.
C17_IndexCounters ==
  Exported =>
    LET doc == files[<<".", INDEX_MD>>]
    IN  /\ "total_shader_lines" \in DOMAIN doc
        /\ doc.total_shader_lines = total_shader_lines
        /\ "total_splines" \in DOMAIN doc
        /\ doc.total_splines = total_splines
        /\ "total_ops" \in DOMAIN doc
        /\ doc.total_ops = total_ops

\* links has one link per entity, to the entity's file under dir, the links
\* in the order of the names, and the files under dir are the linked ones
GroupOf(links, entities, dir, ext) ==
  /\ Len(links) = Len(entities)
  /\ \E f \in [DOMAIN links -> DOMAIN entities] :
       /\ \A k, h \in DOMAIN links : k # h => f[k] # f[h]
       /\ \A k \in DOMAIN links :
            /\ links[k].name = entities[f[k]].name
            /\ links[k].path = <<dir, sanitize_filename(entities[f[k]].name) \o ext>>
  /\ \A k, h \in DOMAIN links : k < h => ~StrLess(links[h].name, links[k].name)
  /\ {links[k].path : k \in DOMAIN links} = {path \in DOMAIN files : path[1] = dir}

SourceName(elem) == findtext(elem, "Name", <<>>)

NameOfEntity(entity) == entity.name

\* C18: the index document links exactly the per-instance files that
\* extract wrote: one link per texture generator and technique with source,
\* per page, per model, per scene, group by group, the links of a group in
\* the order of the display names; the collections stay in source order.
C18_IndexListsArtifacts ==
  Exported =>
    LET doc == files[<<".", INDEX_MD>>]
    IN  /\ GroupOf(doc.texgens, SelectSeq(texgens, HasSource), TEXGEN_DIR, HLSL)
        /\ GroupOf(doc.techniques, SelectSeq(techniques, has_code), MATERIALS_DIR, HLSL)
        /\ GroupOf(doc.texture_pages, texture_pages, "textures", JSON)
        /\ GroupOf(doc.models, models, "models", JSON)
        /\ GroupOf(doc.scenes, scenes, "scenes", JSON)
        /\ Map(NameOfEntity, texgens) = Map(SourceName, SelectSeq(root, KeptAsTexgen))
        /\ Map(NameOfEntity, techniques) = Map(SourceName, Tagged("rendertechnique"))
        /\ Map(NameOfEntity, texture_pages) = Map(SourceName, Tagged("texturepage"))
        /\ Map(NameOfEntity, models) = Map(SourceName, Tagged("model"))
        /\ Map(NameOfEntity, scenes) = Map(SourceName, Tagged("scene"))

\* the scenes "Opening" and "End", in this order in the container, are
\* linked in the order "End", "Opening", next to a texture generator
C18_Witness ==
  /\ Exported
  /\ Len(scenes) = 2 /\ texgens # <<>>
  /\ scenes[1].name = <<"O","p","e","n","i","n","g">> /\ scenes[2].name = <<"E","n","d">>
  /\ files[<<".", INDEX_MD>>].scenes[1].name = <<"E","n","d">>
  /\ files[<<".", INDEX_MD>>].scenes[2].name = <<"O","p","e","n","i","n","g">>
  /\ Len(files[<<".", INDEX_MD>>].texgens) = 1

\* the record of the document has a field that the decoded record has not
Annotated(written, decoded) == \E field \in DOMAIN written : field \notin DOMAIN decoded

\* the record of the document has the name that the map gives for the
\* reference, or "Unknown", in a field that the decoded record has not
AnnotatedWith(written, decoded, names, guid) ==
  \E field \in DOMAIN written :
    /\ field \notin DOMAIN decoded
    /\ written[field] = (IF guid \in DOMAIN names THEN names[guid] ELSE Unknown)

\* C19: in the documents of the texture pages, the models and the scenes,
\* every record that holds a reference is annotated with the name the
\* resolver gives for it: an operator for its filter, a clip data for its
\* target clip, a model object for its parents and its cloned object.
C19_ReferencesAnnotated ==
  Exported =>
    /\ \A i \in DOMAIN texture_pages :
         LastWriter(texture_pages, i) =>
           LET doc == files[<<"textures", sanitize_filename(texture_pages[i].name) \o JSON>>]
           IN  \A k \in DOMAIN texture_pages[i].operators :
                 AnnotatedWith(doc.operators[k], texture_pages[i].operators[k],
                               guid_maps.texgen, texture_pages[i].operators[k].filter_guid)
    /\ \A i \in DOMAIN scenes :
         LastWriter(scenes, i) =>
           LET doc == files[<<"scenes", sanitize_filename(scenes[i].name) \o JSON>>]
           IN  \A j \in DOMAIN scenes[i].objects :
                 \A k \in DOMAIN scenes[i].objects[j].clip_data :
                   LET cd == scenes[i].objects[j].clip_data[k]
                   IN  Truthy(cd.target_clip) =>
                         AnnotatedWith(doc.objects[j].clip_data[k], cd,
                                       guid_maps.clip, cd.target_clip)
    /\ \A i \in DOMAIN models :
         LastWriter(models, i) =>
           LET doc == files[<<"models", sanitize_filename(models[i].name) \o JSON>>]
           IN  \A j \in DOMAIN models[i].objects :
                 LET obj == models[i].objects[j]
                 IN  Truthy(obj.cloned_object) \/ obj.parent_guids # <<>> =>
                       Annotated(doc.objects[j], obj)

\* the entity has a file of the directory or a link of the group of the index
InSomeArtifact(entity, dir, ext, links) ==
  \/ <<dir, sanitize_filename(entity.name) \o ext>> \in DOMAIN files
  \/ \E k \in DOMAIN links : links[k].name = entity.name

\* the document of the kind is written and has one record per entity
InDocument(entities, name) ==
  entities # <<>> =>
    /\ <<".", name>> \in DOMAIN files
    /\ Len(files[<<".", name>>]) = Len(entities)
    /\ \A i \in DOMAIN entities : files[<<".", name>>][i].guid = entities[i].guid

\* C20: every decoded entity is in at least one artifact of a full run, the
\* fields that took a default notwithstanding: a texture generator and a
\* technique decoded with an empty source are exported too.
C20_EveryEntityExported ==
  Exported =>
    LET doc == files[<<".", INDEX_MD>>]
    IN  /\ \A i \in DOMAIN texgens : InSomeArtifact(texgens[i], TEXGEN_DIR, HLSL, doc.texgens)
        /\ \A i \in DOMAIN techniques :
             InSomeArtifact(techniques[i], MATERIALS_DIR, HLSL, doc.techniques)
        /\ \A i \in DOMAIN texture_pages :
             InSomeArtifact(texture_pages[i], "textures", JSON, doc.texture_pages)
        /\ \A i \in DOMAIN models : InSomeArtifact(models[i], "models", JSON, doc.models)
        /\ \A i \in DOMAIN scenes : InSomeArtifact(scenes[i], "scenes", JSON, doc.scenes)
        /\ InDocument(materials, MATERIALS_JSON)
        /\ InDocument(events, TIMELINE_JSON)
        /\ InDocument(render_targets, RENDER_TARGETS_JSON)
        /\ InDocument(render_layers, RENDER_LAYERS_JSON)
\* the process is over
Exited == exit_code # <<>>

\* C21: the process exits nonzero with a diagnostic when the input file is
\* missing or the container is not parseable, and exits zero in every other
\* case, records with missing or invalid field values included.
C21_ExitCodes ==
  Exited =>
    IF apx_file \in {"missing", "malformed"}
    THEN exit_code # <<0>> /\ stderr # <<>>
    ELSE exit_code = <<0>>

\* the constructor returned: the collections are decoded
Constructed ==
  pc \in {"parsed", "listed", "extracted", "IndexError", "FileExistsError"}

\* no entity of the collections has a field that the export adds
Bare ==
  /\ \A i \in DOMAIN events :
       DOMAIN events[i] \cap {"scene_name", "clip_name", "type_name", "target_rt_name"} = {}
  /\ \A i \in DOMAIN materials : "technique_name" \notin DOMAIN materials[i]
  /\ \A i \in DOMAIN render_layers : "render_target_names" \notin DOMAIN render_layers[i]
  /\ \A i \in DOMAIN texture_pages :
       \A j \in DOMAIN texture_pages[i].operators :
         "filter_name" \notin DOMAIN texture_pages[i].operators[j]

\* C22: once the constructor has returned, no step of the process (building
\* the identity maps, extract in either mode with _write_index, list_contents,
\* the exit) changes any of the nine collections or a field of an entity, and
\* the name annotations are on the exported copies only.
C22_EntitiesImmutable ==
  [][Constructed /\ runs' = runs => collections' = collections /\ Bare']_vars

\* an event was exported with the name of its scene, which the decoded
\* event does not hold
C22_Witness ==
  /\ pc = "extracted" /\ ~shaders_only
  /\ Len(events) = 1 /\ Len(scenes) = 2
  /\ files[<<".", TIMELINE_JSON>>][1].scene_name = <<"E","n","d">>
  /\ "scene_name" \notin DOMAIN events[1]

\* the run before this one was an extraction that succeeded
SecondExtract ==
  /\ runs > 1 /\ ~list_only /\ apx_file = "ok"
  /\ previous[1].exit_code = <<0>>

\* C23: a second extraction of the same input in the same mode, into the
\* output directory as the first left it, succeeds (the directories that
\* exist are tolerated, the files that exist are overwritten) and leaves the
\* same paths with the same contents.
C23_SecondRunSame ==
  SecondExtract /\ Exited =>
    /\ exit_code = <<0>>
    /\ dirs = previous[1].dirs
    /\ DOMAIN files = DOMAIN previous[1].files
    /\ \A path \in DOMAIN files : files[path] = previous[1].files[path]
    /\ writes = previous[1].writes

\* the two scenes and the technique were extracted twice: the directories
\* existed and each file was written over
C23_Witness ==
  /\ SecondExtract /\ Exited
  /\ Len(scenes) = 2 /\ Len(techniques) = 1
  /\ {".", "shaders", "scenes"} \subseteq previous[1].dirs
  /\ Len(writes) >= 3
  /\ \A i \in DOMAIN writes : writes[i] \in DOMAIN previous[1].files

\* C24: with --list nothing is written, whatever the container holds and
\* whether or not --shaders-only is given: no directory is made and no file
\* is written in any state of the run, and a run that returns from main has
\* printed the summary of the decoded collections.
C24_ListWritesNothing ==
  list_only =>
    /\ dirs = {} /\ files = <<>> /\ writes = <<>>
    /\ pc # "extracted"
    /\ exit_code = <<0>> => stdout = <<list_summary>>

\* a container of a technique with source, a scene and an event was listed
\* with --shaders-only given too
C24_Witness ==
  /\ list_only /\ shaders_only /\ exit_code = <<0>>
  /\ Len(techniques) = 1 /\ Len(scenes) = 1 /\ Len(events) = 1
  /\ stdout[1].techniques.count = 1
  /\ stdout[1].scenes.total_clips = 1
  /\ stdout[1].timeline[1].duration = 9
  /\ stdout[1].statistics.total_shader_lines = 1

\* the parameters of the passes, pass after pass
RECURSIVE AllParameters(_)
AllParameters(passes) ==
  IF passes = <<>> THEN <<>>
  ELSE Head(passes).parameters \o AllParameters(Tail(passes))

\* the label stated for a scope
StatedScope(n) ==
  IF n \in {0, 1, 2} THEN Label(SCOPE_NAMES[n + 1]) ELSE LabelN("Scope", n)

IsPassLine(line) == line.tag = "// Pass {i+1}: {name}"

IsParamLine(line) == line.tag = "//   * {name} ({ptype}, {scope})"

IsBanner(line) == line = Banner

\* the file of a technique has a block per pass, in pass order and numbered
\* from 1, between banners, and a line per parameter with the stated label
StatedBlocks(tech, content) ==
  LET heads == SelectSeq(content, IsPassLine)
      lines == SelectSeq(content, IsParamLine)
      params == AllParameters(tech.passes)
  IN  /\ Len(heads) = Len(tech.passes)
      /\ Len(SelectSeq(content, IsBanner)) = 2 * Len(tech.passes)
      /\ \A i \in DOMAIN heads :
           heads[i].num = <<i>> /\ heads[i].text = tech.passes[i].name
      /\ Len(lines) = Len(params)
      /\ \A k \in DOMAIN lines :
           lines[k].text = params[k].name /\ lines[k].scope = StatedScope(params[k].scope)

\* C26: extract raises nothing for the scope of a parameter, and in the file
\* of a technique there is one block per pass between banners, in pass order
\* and numbered from 1, each parameter listed with "Constant", "Variable" or
\* "Animated" for the scope 0, 1 or 2 and "Scope<n>" for any other scope n,
\* a negative one included.
C26_PassBlocksAndScopes ==
  /\ pc # "IndexError"
  /\ pc = "extracted" =>
       \A t \in DOMAIN techniques :
         has_code(techniques[t]) /\ LastWriter(techniques, t) =>
           StatedBlocks(techniques[t],
                        files[<<MATERIALS_DIR, sanitize_filename(techniques[t].name) \o HLSL>>])

\* the map has one entry per identity of the collection, with the name of
\* the last entity that has the identity
LastNames(names, entities) ==
  /\ DOMAIN names = Guids(entities)
  /\ \A g \in Guids(entities) : names[g] = NameOf(entities, g)

\* "scene/clip" of the last clip, scene after scene, that has the identity
LastClipName(guid) ==
  LET places == UNION {{<<i, j>> : j \in DOMAIN scenes[i].clips} : i \in DOMAIN scenes}
      last == CHOOSE p \in places :
                scenes[p[1]].clips[p[2]].guid = guid /\ ~Shadowed(p[1], p[2])
  IN  DisplayName(scenes[last[1]], scenes[last[1]].clips[last[2]])

\* some identity is held by two entities of the collection
SharedIdentity(entities) ==
  \E i, j \in DOMAIN entities : i < j /\ entities[i].guid = entities[j].guid

\* C27: each identity map has a single entry per identity, with the display
\* name of the entity (for the clip map, "scene/clip" of the clip) that comes
\* last in source order among those that share it, and the names written for
\* the references of the events, materials, operators and layers to such an
\* identity are the later entity's.
C27_LastEntityWins ==
  /\ MapsBuilt =>
       /\ LastNames(guid_maps.texgen, texgens)
       /\ LastNames(guid_maps.technique, techniques)
       /\ LastNames(guid_maps.render_target, render_targets)
       /\ LastNames(guid_maps.render_layer, render_layers)
       /\ LastNames(guid_maps.material, materials)
       /\ LastNames(guid_maps.model, models)
       /\ LastNames(guid_maps.scene, scenes)
       /\ DOMAIN guid_maps.clip = ClipGuids
       /\ \A g \in ClipGuids : guid_maps.clip[g] = LastClipName(g)
  /\ Exported =>
       /\ \A i \in DOMAIN events :
            LET doc == files[<<".", TIMELINE_JSON>>][i]
            IN  /\ events[i].scene_guid \in Guids(scenes) /\ Truthy(events[i].scene_guid) =>
                     doc.scene_name = NameOf(scenes, events[i].scene_guid)
                /\ events[i].clip_guid \in ClipGuids /\ Truthy(events[i].clip_guid) =>
                     doc.clip_name = LastClipName(events[i].clip_guid)
                /\ events[i].target_rt \in Guids(render_targets) =>
                     doc.target_rt_name = NameOf(render_targets, events[i].target_rt)
       /\ \A i \in DOMAIN materials :
            materials[i].technique_guid \in Guids(techniques) =>
              files[<<".", MATERIALS_JSON>>][i].technique_name
                = NameOf(techniques, materials[i].technique_guid)
       /\ \A i \in DOMAIN render_layers :
            \A k \in DOMAIN render_layers[i].render_targets :
              render_layers[i].render_targets[k] \in Guids(render_targets) =>
                files[<<".", RENDER_LAYERS_JSON>>][i].render_target_names[k]
                  = NameOf(render_targets, render_layers[i].render_targets[k])
       /\ \A i \in DOMAIN texture_pages :
            LastWriter(texture_pages, i) =>
              \A k \in DOMAIN texture_pages[i].operators :
                texture_pages[i].operators[k].filter_guid \in Guids(texgens) =>
                  files[<<"textures", sanitize_filename(texture_pages[i].name) \o JSON>>]
                    .operators[k].filter_name
                    = NameOf(texgens, texture_pages[i].operators[k].filter_guid)

\* the scenes "Opening" and "End" share the identity s1 and their clips the
\* identity c1: the event that refers to both is exported with the names of
\* the later scene and of its clip
C27_Witness ==
  /\ Exported
  /\ Len(scenes) = 2 /\ SharedIdentity(scenes) /\ Shadowed(1, 1)
  /\ scenes[1].name = Opening
  /\ Len(events) = 1
  /\ DOMAIN guid_maps.scene = {<<"s","1">>}
  /\ files[<<".", TIMELINE_JSON>>][1].scene_name = <<"E","n","d">>
  /\ files[<<".", TIMELINE_JSON>>][1].clip_name = <<"E","n","d","/","O","u","t","r","o">>

\* C25: a call of process_file without apply does not write the markdown
\* file, whose content stays as it was, and it returns the list of
\* references that a call with apply returns on the same file.
C25_PreviewOnly ==
  /\ \A i \in DOMAIN calls :
       ~calls[i].apply => ~calls[i].wrote
  /\ \A i \in DOMAIN calls :
       ~calls[i].apply =>
         (IF i < Len(calls) THEN calls[i + 1].before ELSE md_text) = calls[i].before
  /\ \A i, j \in DOMAIN calls :
       calls[i].before = calls[j].before => calls[i].refs = calls[j].refs

\* a preview and then a run with --apply on a file with references: both
\* return the same references, more than one, and only the second run
\* changes the file
C25_Witness ==
  /\ Len(calls) = 2
  /\ ~calls[1].apply /\ calls[2].apply
  /\ calls[2].before = calls[1].before
  /\ Len(calls[1].refs) > 1
  /\ calls[2].refs = calls[1].refs
  /\ calls[2].wrote /\ md_text # calls[2].before

====
